---------------------------- MODULE Spec2Model ----------------------------
(***************************************************************************)
(* A model of the Excel keyword-search application (src/app.py): the cell  *)
(* scanner and keyword matcher, the result aggregator, the result-workbook *)
(* renderer, the two search endpoints and the bulk search-replace engine.  *)
(*                                                                         *)
(* Text is a sequence of one-character strings.  Four specifications share *)
(* the variables: SpecMatch (the matcher as a pure function), SpecRender   *)
(* (the renderer as a pure function), Spec (the search endpoints over the  *)
(* results and uploads directories) and SpecReplace (bulk search-replace   *)
(* over a folder).                                                         *)
(***************************************************************************)
EXTENDS Integers, Sequences, FiniteSets, TLC

VARIABLES
    cell_text,      \* SpecMatch: the text of the scanned cell
    kw_list,        \* SpecMatch: the ordered keyword list
    frags,          \* SpecMatch: the records the scan of the cell appended
    mpc,            \* SpecMatch: "ready" before the scan, "done" after
    r_keywords,     \* SpecRender: the KeywordSet given to the renderer
    r_results,      \* SpecRender: the MatchRecord sequence given to the renderer
    r_hl,           \* SpecRender: whether assigning a hyperlink succeeds
    r_out,          \* SpecRender: what create_results_workbook returned or raised
    rpc,            \* SpecRender: "ready" before rendering, "done" after
    now,            \* Spec: the wall clock, in milliseconds
    results_dir,    \* Spec: RESULTS_FOLDER, file name -> content
    uploads_dir,    \* Spec: UPLOAD_FOLDER, file name -> content
    ninv,           \* Spec: the number of search invocations started
    last,           \* Spec: the latest /api/search invocation and its response
    up,             \* Spec: the /api/search-files requests in progress
    faults,         \* Spec: the number of I/O failures that have occurred
    fsys,           \* SpecReplace: the files of the folder, path -> content
    fsys0,          \* SpecReplace: the files as the latest invocation found them
    rp,             \* SpecReplace: the /api/search-replace request in progress
    rlast,          \* SpecReplace: the latest /api/search-replace response
    rn,             \* SpecReplace: the number of requests started
    rfaults,        \* SpecReplace: the number of I/O failures that have occurred
    ref_sheet,      \* SpecRef: the sheet name of a match
    ref_col,        \* SpecRef: the column number of a match
    ref_row,        \* SpecRef: the row number of a match
    ref_out,        \* SpecRef: the column letters and the cell reference built
    refpc,          \* SpecRef: "ready" before the reference is built, then "done"
    dl_store,       \* SpecDownload: the results folder, timestamp -> content
    dl_resp,        \* SpecDownload: the latest /api/download-results response
    cd_req,         \* SpecCell: the latest /api/get-cell-details request
    cd_resp         \* SpecCell: its response

matchVars == <<cell_text, kw_list, frags, mpc>>
renderVars == <<r_keywords, r_results, r_hl, r_out, rpc>>
searchVars == <<now, results_dir, uploads_dir, ninv, last, up, faults>>

replaceVars == <<fsys, fsys0, rp, rlast, rn, rfaults>>

refVars == <<ref_sheet, ref_col, ref_row, ref_out, refpc>>

downloadVars == <<dl_store, dl_resp>>

cellVars == <<cd_req, cd_resp>>

vars == <<matchVars, renderVars, searchVars, replaceVars, refVars, downloadVars,
          cellVars>>

-----------------------------------------------------------------------------
(* Bounds of the model *)

MaxTextLen == 2
MaxKeywords == 2
MaxRenderKeywords == 4
MaxRows == 1
MaxInv == 2
MaxFaults == 1
MaxNow == 1
MsPerSec == 1
MaxColumn == 702
MaxRefRow == 5
MaxStamp == 2
MaxCellRow == 4
MaxCellCol == 3
MaxContext == 2

-----------------------------------------------------------------------------
(* Program constants *)

\* the width of the context kept before and after a match, lines 1452-1453
ContextLen == 50

\* the folder the bulk search-replace requests name
DocsFolder == "/docs"

-----------------------------------------------------------------------------
(* Text primitives: str.lower(), the `in` containment test, str() *)

Alphabet == {"a", "A", "b"}

\* str.lower() on one character
LowerChar(c) ==
    CASE c = "A" -> "a"
      [] c = "B" -> "b"
      [] c = "C" -> "c"
      [] c = "I" -> "i"
      [] OTHER -> c

\* str.lower()
Lower(s) == [i \in 1..Len(s) |-> LowerChar(s[i])]

\* Python's `sub in text` on strings
IsSubstring(sub, text) ==
    \E i \in 0..(Len(text) - Len(sub)) : SubSeq(text, i + 1, i + Len(sub)) = sub

\* the test of line 176, keyword.lower() in cell_value.lower()
KeywordIn(keyword, cell_value) == IsSubstring(Lower(keyword), Lower(cell_value))

Digit(d) ==
    CASE d = 0 -> "0" [] d = 1 -> "1" [] d = 2 -> "2" [] d = 3 -> "3"
      [] d = 4 -> "4" [] d = 5 -> "5" [] d = 6 -> "6" [] d = 7 -> "7"
      [] d = 8 -> "8" [] OTHER -> "9"

RECURSIVE IntStr(_)
\* str(n) for a non-negative integer
IntStr(n) == IF n < 10 THEN <<Digit(n)>> ELSE IntStr(n \div 10) \o <<Digit(n % 10)>>

\* A cell value: None, a string or an integer
None == [t |-> "none"]
S(v) == [t |-> "str", v |-> v]
N(v) == [t |-> "int", v |-> v]

\* str(cell.value), line 170
Str(value) == IF value.t = "int" THEN IntStr(value.v) ELSE value.v

\* A file identifier: an absolute path or a bare (relative, one-part) name
AbsPath(parts) == [abs |-> TRUE, parts |-> parts]
BareName(name) == [abs |-> FALSE, parts |-> <<name>>]

\* Path(p).name
PathName(p) == p.parts[Len(p.parts)]

Sheet1 == <<"S", "h", "e", "e", "t", "1">>
ProbeFile == AbsPath(<<"data", "probe.xlsx">>)

-----------------------------------------------------------------------------
(* Cell scanner and keyword matcher: search_keywords_in_excel *)

MatchRecord(file, sheet, row, col, value, keyword) ==
    [sheet |-> sheet, row |-> row, col |-> col, value |-> value,
     keyword |-> keyword, file |-> file]

RECURSIVE ScanKeywords_firstOnly(_, _, _, _, _, _, _)
ScanKeywords_firstOnly(file, sheet, row, col, cell_value, keywords, k) ==
    IF k > Len(keywords) THEN <<>>
    ELSE IF KeywordIn(keywords[k], cell_value)
         THEN <<MatchRecord(file, sheet, row, col, cell_value, keywords[k])>>
         ELSE ScanKeywords_firstOnly(file, sheet, row, col, cell_value, keywords, k + 1)

RECURSIVE ScanKeywordsFrom(_, _, _, _, _, _, _)
\* the keyword loop of lines 173-185 from keyword position k on
ScanKeywordsFrom(file, sheet, row, col, cell_value, keywords, k) ==
    IF k > Len(keywords) THEN <<>>
    ELSE (IF KeywordIn(keywords[k], cell_value)
          THEN <<MatchRecord(file, sheet, row, col, cell_value, keywords[k])>>
          ELSE <<>>)
         \o ScanKeywordsFrom(file, sheet, row, col, cell_value, keywords, k + 1)

\* lines 166-185: the records one cell contributes
ScanCell(file, sheet, row, col, value, keywords) ==
    IF value = None THEN <<>>
    ELSE ScanKeywordsFrom(file, sheet, row, col, Str(value), keywords, 1)

-----------------------------------------------------------------------------
(* Column-reference codec and result workbook renderer:                    *)
(* create_results_workbook.  platform.system() is taken to be non-Windows. *)

Letters == <<"A", "B", "C", "D", "E", "F", "G", "H", "I", "J", "K", "L", "M",
             "N", "O", "P", "Q", "R", "S", "T", "U", "V", "W", "X", "Y", "Z">>

RECURSIVE ColumnLoop(_, _)
\* the while loop of lines 360-363
ColumnLoop(n, result_col) ==
    IF n > 0
    THEN ColumnLoop((n - 1) \div 26, <<Letters[((n - 1) % 26) + 1]>> \o result_col)
    ELSE result_col

RECURSIVE ColumnLoop_noDecrement(_, _)
ColumnLoop_noDecrement(n, result_col) ==
    IF n > 0
    THEN ColumnLoop_noDecrement(n \div 26, <<Letters[(n % 26) + 1]>> \o result_col)
    ELSE result_col

number_to_excel_column_plainBase26(n) == ColumnLoop_noDecrement(n, <<>>)

\* lines 346-364
number_to_excel_column(n) == ColumnLoop(n, <<>>)

QuoteChars == {" ", "-", "!", "@", "#", "$", "%", "^", "&", "*", "(", ")"}

NeedsQuote_spaceOnly(sheet_name) ==
    \E i \in 1..Len(sheet_name) : sheet_name[i] = " "

\* the test of line 370
NeedsQuote(sheet_name) == \E i \in 1..Len(sheet_name) : sheet_name[i] \in QuoteChars

\* lines 366-373
cell_reference(sheet_name, col_num, row_num) ==
    LET col_letter == number_to_excel_column(col_num)
    IN  IF NeedsQuote(sheet_name)
        THEN <<"'">> \o sheet_name \o <<"'", "!">> \o col_letter \o IntStr(row_num)
        ELSE sheet_name \o <<"!">> \o col_letter \o IntStr(row_num)

LightRed == "FFE6E6"
LightBlue == "E6F3FF"
LightGreen == "E6FFE6"
White == "FFFFFF"
NoFill == "none"

LinkFont == "0563C1 underline"
BlackFont == "000000"
DefaultFont == "default"

NoLink == [target |-> "none"]
\* lines 269-277 (non-Windows): file://<absolute path>
FileLink(file) == [target |-> "file://", path |-> file]
\* line 377: the file link followed by #<cell reference>
CellLink(file, ref) == [target |-> "file://", path |-> file, ref |-> ref]

\* line 338: the source path is resolvable to an absolute form.  A path the
\* scan was given exists; an uploaded file's bare name does not.
Resolvable(file) == file.abs \/ Len(file.parts) > 1

\* lines 443-449: the dictionary built from the first three keywords, a later
\* key replacing an equal earlier one, and its lookup with default white
fill_color(keywords, keyword) ==
    IF keyword = keywords[3] THEN LightGreen
    ELSE IF keyword = keywords[2] THEN LightBlue
    ELSE IF keyword = keywords[1] THEN LightRed
    ELSE White

\* lines 443-447 raise IndexError unless keywords has three elements
keyword_colors_raises(keywords) == Len(keywords) < 3

\* lines 250-458: the row of one result; hl_ok tells whether assigning a
\* hyperlink to a cell succeeds (each failure is caught per cell)
RenderRow(result, keywords, hl_ok) ==
    LET values == <<PathName(result.file), result.sheet, result.row, result.col,
                    result.value, result.keyword, result.file>>
        link1 == IF hl_ok THEN FileLink(result.file) ELSE NoLink
        link5 == IF hl_ok /\ Resolvable(result.file)
                 THEN CellLink(result.file,
                               cell_reference(result.sheet, result.col, result.row))
                 ELSE NoLink
        font5 == IF Resolvable(result.file)
                 THEN (IF hl_ok THEN LinkFont ELSE DefaultFont)
                 ELSE BlackFont
        links == <<link1, NoLink, NoLink, NoLink, link5, NoLink, link1>>
        fonts == <<IF hl_ok THEN LinkFont ELSE DefaultFont, DefaultFont, DefaultFont,
                   DefaultFont, font5, DefaultFont,
                   IF hl_ok THEN LinkFont ELSE DefaultFont>>
        fill == fill_color(keywords, result.keyword)
    IN  [values |-> values,
         links |-> links,
         fonts |-> fonts,
         fills |-> [col \in 1..7 |->
                      IF col \notin {1, 5, 7} \/ links[col] = NoLink
                      THEN fill ELSE NoFill]]

Headers == <<"file_name", "sheet_name", "row", "col", "cell_value", "keyword",
             "file_path">>

\* lines 200-480: the workbook, or the exception the function raises
create_results_workbook(search_results, keywords, hl_ok) ==
    IF Len(search_results) > 0 /\ keyword_colors_raises(keywords)
    THEN [ok |-> FALSE, error |-> "IndexError"]
    ELSE [ok |-> TRUE,
          sheets |-> <<"results">>,
          header |-> Headers,
          rows |-> [i \in 1..Len(search_results) |->
                      RenderRow(search_results[i], keywords, hl_ok)]]

-----------------------------------------------------------------------------
(* SpecMatch: the matcher applied to one cell *)

Texts(n) == UNION {[1..m -> Alphabet] : m \in 0..n}

KeywordPool == {<<>>, <<"a">>, <<"A", "b">>, <<"b">>}

KeywordListsUpTo(n) == UNION {[1..m -> KeywordPool] : m \in 0..n}

MatchStart ==
    /\ cell_text \in Texts(MaxTextLen)
    /\ kw_list \in KeywordListsUpTo(MaxKeywords)
    /\ frags = <<>>
    /\ mpc = "ready"

MatchIdle ==
    /\ cell_text = <<>>
    /\ kw_list = <<>>
    /\ frags = <<>>
    /\ mpc = "off"

\* one cell of text cell_text scanned against kw_list
MatchStep ==
    /\ mpc = "ready"
    /\ frags' = ScanCell(ProbeFile, Sheet1, 1, 1, S(cell_text), kw_list)
    /\ mpc' = "done"
    /\ UNCHANGED <<cell_text, kw_list, renderVars, searchVars, replaceVars, refVars, downloadVars, cellVars>>

MatchNext == MatchStep

-----------------------------------------------------------------------------
(* SpecRender: the renderer applied to one KeywordSet and result sequence *)

KeyA == <<"a">>
KeyB == <<"b">>
KeyC == <<"c">>
KeyOther == <<"z">>
RenderKeywordPool == {KeyA, KeyB, KeyC}

SheetQ1 == <<"Q", "1", " ", "2", "0", "2", "4">>
UploadedName == BareName("up.xlsx")

RenderRecordPool ==
    {MatchRecord(ProbeFile, Sheet1, 2, 2, <<"a", "b", "c">>, k)
        : k \in RenderKeywordPool \cup {KeyOther}}
    \cup {MatchRecord(UploadedName, SheetQ1, 5, 28, <<"a", "b", "c">>, k)
        : k \in RenderKeywordPool \cup {KeyOther}}

RenderStart ==
    /\ r_keywords \in UNION {[1..m -> RenderKeywordPool] : m \in 1..MaxRenderKeywords}
    /\ r_results \in UNION {[1..m -> RenderRecordPool] : m \in 0..MaxRows}
    /\ r_hl \in BOOLEAN
    /\ r_out = [ok |-> FALSE, error |-> "not called"]
    /\ rpc = "ready"

RenderIdle ==
    /\ r_keywords = <<>>
    /\ r_results = <<>>
    /\ r_hl = TRUE
    /\ r_out = [ok |-> FALSE, error |-> "not called"]
    /\ rpc = "off"

RenderStep ==
    /\ rpc = "ready"
    /\ r_out' = create_results_workbook(r_results, r_keywords, r_hl)
    /\ rpc' = "done"
    /\ UNCHANGED <<r_keywords, r_results, r_hl, matchVars, searchVars, replaceVars, refVars, downloadVars, cellVars>>

RenderNext == RenderStep

-----------------------------------------------------------------------------
(* SpecRef: the column-letter conversion and the cell reference of one match *)

SheetNames ==
    {Sheet1, SheetQ1}
    \cup {<<"Q", c>> : c \in QuoteChars \cup {"_", ".", "'", "+"}}

NoReference == [letters |-> <<>>, reference |-> <<>>]

RefStart ==
    /\ ref_sheet \in SheetNames
    /\ ref_col \in 1..MaxColumn
    /\ ref_row \in 1..MaxRefRow
    /\ ref_out = NoReference
    /\ refpc = "ready"

RefIdle ==
    /\ ref_sheet = <<>>
    /\ ref_col = 1
    /\ ref_row = 1
    /\ ref_out = NoReference
    /\ refpc = "off"

\* lines 340-373 for the match at (ref_sheet, ref_row, ref_col)
RefStep ==
    /\ refpc = "ready"
    /\ ref_out' = [letters |-> number_to_excel_column(ref_col),
                   reference |-> cell_reference(ref_sheet, ref_col, ref_row)]
    /\ refpc' = "done"
    /\ UNCHANGED <<ref_sheet, ref_col, ref_row, matchVars, renderVars, searchVars,
                   replaceVars, downloadVars, cellVars>>

RefNext == RefStep

-----------------------------------------------------------------------------
(* Workbooks: the whole-file scan of search_keywords_in_excel *)

Worksheet(name, rows) == [name |-> name, chart |-> FALSE, rows |-> rows]
\* a chart sheet is listed in wb.sheetnames and has no iter_rows
Chartsheet(name) == [name |-> name, chart |-> TRUE, rows |-> <<>>]
Workbook(sheets) == [openable |-> TRUE, sheets |-> sheets]
\* openpyxl.load_workbook raises on it
CorruptWorkbook == [openable |-> FALSE, sheets |-> <<>>]

RECURSIVE Flatten(_)
Flatten(seqs) == IF seqs = <<>> THEN <<>> ELSE Head(seqs) \o Flatten(Tail(seqs))

ScanSheet_columnsDescending(file, sheet, keywords) ==
    Flatten([r \in 1..Len(sheet.rows) |->
        Flatten([c \in 1..Len(sheet.rows[r]) |->
            ScanCell(file, sheet.name, r, Len(sheet.rows[r]) + 1 - c,
                     sheet.rows[r][Len(sheet.rows[r]) + 1 - c], keywords)])])

ScanSheet_zeroBased(file, sheet, keywords) ==
    Flatten([r \in 1..Len(sheet.rows) |->
        Flatten([c \in 1..Len(sheet.rows[r]) |->
            ScanCell(file, sheet.name, r - 1, c - 1, sheet.rows[r][c], keywords)])])

\* lines 162-185: one sheet, row-major from row 1, column 1
ScanSheet(file, sheet, keywords) ==
    Flatten([r \in 1..Len(sheet.rows) |->
        Flatten([c \in 1..Len(sheet.rows[r]) |->
            ScanCell(file, sheet.name, r, c, sheet.rows[r][c], keywords)])])

RECURSIVE ScanSheetsFrom(_, _, _, _)
\* lines 157-185 from sheet i on; iterating a chart sheet raises, and the
\* handler of lines 189-197 then returns what was appended before
ScanSheetsFrom(file, sheets, keywords, i) ==
    IF i > Len(sheets) THEN <<>>
    ELSE IF sheets[i].chart THEN <<>>
    ELSE ScanSheet(file, sheets[i], keywords)
         \o ScanSheetsFrom(file, sheets, keywords, i + 1)

\* lines 146-197
search_keywords_in_excel(file, wb, keywords) ==
    IF ~wb.openable THEN <<>>
    ELSE ScanSheetsFrom(file, wb.sheets, keywords, 1)

-----------------------------------------------------------------------------
(* The folders, uploads and keyword lists requests are drawn from *)

KeyInv == <<"i", "n", "v">>
KeyOne == <<"1">>

WbInvoice ==
    Workbook(<<Worksheet(Sheet1, << <<S(<<"a">>), None>>,
                                    <<None, S(<<"I", "n", "v">>)>> >>)>>)
WbNumbers ==
    Workbook(<<Worksheet(SheetQ1, << <<N(12), S(<<"A">>)>> >>),
               Worksheet(<<"D">>, << <<None>>, <<S(<<"1", "a">>)>> >>)>>)
WbChart ==
    Workbook(<<Worksheet(Sheet1, << <<S(<<"I", "n", "v", " ", "a">>)>> >>),
               Chartsheet(<<"C">>),
               Worksheet(<<"D">>, << <<S(<<"a">>)>> >>)>>)

FileIn(dir, name, wb) == [path |-> AbsPath(<<dir, name>>), wb |-> wb]

FolderPaths == {"", " ", "/missing", "/notes.txt", "/empty", "/f1"}

\* what the file system holds at a folder path: folder.exists(), folder.is_dir()
\* and the list of line 659
Folder(path) ==
    CASE path = "/f1" ->
            [exists |-> TRUE, is_dir |-> TRUE,
             excel_files |-> <<FileIn("f1", "a.xlsx", WbInvoice),
                               FileIn("f1", "bad.xlsx", CorruptWorkbook),
                               FileIn("f1", "chart.xlsx", WbChart),
                               FileIn("f1", "c.xls", WbNumbers)>>]
      [] path = "/empty" ->
            [exists |-> TRUE, is_dir |-> TRUE, excel_files |-> <<>>]
      [] path = "/notes.txt" ->
            [exists |-> TRUE, is_dir |-> FALSE, excel_files |-> <<>>]
      [] OTHER ->
            [exists |-> FALSE, is_dir |-> FALSE, excel_files |-> <<>>]

SearchKeywordLists == {<<>>, <<KeyInv>>, <<KeyInv, KeyA, KeyOne>>}

Blob(filename, wb) == [filename |-> filename, wb |-> wb]

UploadBatches ==
    {<<>>,
     <<Blob("notes.txt", CorruptWorkbook)>>,
     <<Blob("a.xlsx", WbInvoice), Blob("bad.xlsx", CorruptWorkbook)>>}

\* filename.endswith('.xlsx') or filename.endswith('.xls'), line 843
IsExcelName(filename) == filename \in {"a.xlsx", "bad.xlsx", "c.xls"}

Reqs == {"u1"}

-----------------------------------------------------------------------------
(* /api/search and /api/search-files *)

NoName == <<>>

ErrorResponse(status, error) ==
    [status |-> status, success |-> FALSE, error |-> error, results |-> <<>>,
     total_matches |-> 0, files_searched |-> 0, output_file |-> NoName]

NoResponse == ErrorResponse(0, "no response")

\* str.strip() on a folder path, line 511
Strip(path_str) == IF path_str = " " THEN "" ELSE path_str

\* lines 507-515: None for an empty or blank path
normalize_path_is_none(path_str) == path_str = "" \/ Strip(path_str) = ""

search_validation_keywordsUnchecked(folder_path, keywords) ==
    IF folder_path = "" THEN ErrorResponse(400, "no folder path")
    ELSE IF normalize_path_is_none(folder_path)
         THEN ErrorResponse(400, "invalid folder path")
    ELSE IF ~Folder(folder_path).exists THEN ErrorResponse(404, "folder not found")
    ELSE IF ~Folder(folder_path).is_dir THEN ErrorResponse(400, "not a folder")
    ELSE [status |-> 200]

\* lines 607-683: the rejection of a request, or status 200 to go on
search_validation(folder_path, keywords) ==
    IF folder_path = "" THEN ErrorResponse(400, "no folder path")
    ELSE IF Len(keywords) = 0 THEN ErrorResponse(400, "no keywords")
    ELSE IF normalize_path_is_none(folder_path)
         THEN ErrorResponse(400, "invalid folder path")
    ELSE IF ~Folder(folder_path).exists THEN ErrorResponse(404, "folder not found")
    ELSE IF ~Folder(folder_path).is_dir THEN ErrorResponse(400, "not a folder")
    ELSE IF Len(Folder(folder_path).excel_files) = 0
         THEN ErrorResponse(404, "no excel files")
    ELSE [status |-> 200]

\* lines 686-693
Aggregate(excel_files, keywords) ==
    Flatten([i \in 1..Len(excel_files) |->
        search_keywords_in_excel(excel_files[i].path, excel_files[i].wb, keywords)])

\* datetime.now().strftime('%Y%m%d_%H%M%S'): the clock cut to whole seconds
Timestamp(ms) == ms \div MsPerSec

\* lines 696-703 and 878-884: what create_results_workbook and wb.save do;
\* save_ok tells whether the write to the results directory succeeds
RenderOutcome(all_results, keywords, save_ok, hl_ok) ==
    IF ~create_results_workbook(all_results, keywords, hl_ok).ok THEN "render_error"
    ELSE IF ~save_ok THEN "save_error"
    ELSE "ok"

\* lines 698-700: RESULTS_FOLDER after wb.save(output_file), when it happens
SaveResults(dir, name, all_results, keywords, hl_ok, outcome) ==
    IF outcome = "ok"
    THEN (name :> create_results_workbook(all_results, keywords, hl_ok)) @@ dir
    ELSE dir

\* lines 707-715: output_file was bound at line 698, before rendering
output_file_str(name, outcome) == <<name>>

search_response_failsOnRender(all_results, files_searched, output_file, outcome) ==
    IF outcome = "ok"
    THEN [status |-> 200, success |-> TRUE, error |-> "", results |-> all_results,
          total_matches |-> Len(all_results), files_searched |-> files_searched,
          output_file |-> output_file]
    ELSE ErrorResponse(500, "render failed")

\* lines 717-723
search_response(all_results, files_searched, output_file, outcome) ==
    [status |-> 200, success |-> TRUE, error |-> "", results |-> all_results,
     total_matches |-> Len(all_results), files_searched |-> files_searched,
     output_file |-> output_file]

\* the latest completed invocation: its request, its response, how rendering
\* ended, how many workbooks it opened and the temp files it stored
Completed(op, folder_path, files, keywords, resp, render, opened, staged) ==
    [op |-> op, folder_path |-> folder_path, files |-> files, keywords |-> keywords,
     resp |-> resp, render |-> render, opened |-> opened, staged |-> staged]

NothingCompleted == Completed("none", "", <<>>, <<>>, NoResponse, "none", 0, {})

\* the number of I/O operations that fail among those with the given outcomes
Failures(oks) == Cardinality({j \in 1..Len(oks) : ~oks[j]})

\* /api/search, lines 598-735, as one step
Search(folder_path, keywords, save_ok, hl_ok) ==
    /\ ninv < MaxInv
    /\ ninv' = ninv + 1
    /\ faults + Failures(<<save_ok, hl_ok>>) <= MaxFaults
    /\ faults' = faults + Failures(<<save_ok, hl_ok>>)
    /\ LET v == search_validation(folder_path, keywords)
       IN  IF v.status # 200
           THEN /\ last' = Completed("search", folder_path, <<>>, keywords, v,
                                     "none", 0, {})
                /\ UNCHANGED results_dir
           ELSE LET excel_files == Folder(folder_path).excel_files
                    all_results == Aggregate(excel_files, keywords)
                    outcome == RenderOutcome(all_results, keywords, save_ok, hl_ok)
                    name == Timestamp(now)
                IN  /\ results_dir' = SaveResults(results_dir, name, all_results,
                                                  keywords, hl_ok, outcome)
                    /\ last' = Completed("search", folder_path, <<>>, keywords,
                                    search_response(all_results, Len(excel_files),
                                        output_file_str(name, outcome), outcome),
                                    outcome, Len(excel_files), {})
    /\ UNCHANGED <<now, uploads_dir, up, matchVars, renderVars, replaceVars, refVars, downloadVars, cellVars>>

IdleUpload ==
    [pc |-> "idle", files |-> <<>>, keywords |-> <<>>, i |-> 0,
     all_results |-> <<>>, temp_file_paths |-> <<>>, render |-> "none",
     output_file |-> NoName, staged |-> {}]

\* lines 829, 839-844: the uploads with a file name that are Excel files
ExcelUploads(batch) ==
    SelectSeq(batch, LAMBDA f : f.filename # "" /\ IsExcelName(f.filename))

\* lines 793-847: the rejection of an upload request, or status 200 to go on
upload_validation(batch, keywords) ==
    IF Len(keywords) = 0 THEN ErrorResponse(400, "no keywords")
    ELSE IF Len(batch) = 0 THEN ErrorResponse(400, "no files")
    ELSE IF Len(SelectSeq(batch, LAMBDA f : f.filename # "")) = 0
         THEN ErrorResponse(400, "no valid files")
    ELSE IF Len(ExcelUploads(batch)) = 0 THEN ErrorResponse(404, "no excel files")
    ELSE [status |-> 200]

\* lines 857-859: UPLOAD_FOLDER / f"{timestamp}_{filename}"
TempFile(ms, filename) ==
    [abs |-> TRUE, parts |-> <<"uploads", filename>>, stamp |-> <<ms>>]

\* /api/search-files, lines 777-851: validation and the start of the file loop
UploadStart(r, batch, keywords) ==
    /\ up[r].pc = "idle"
    /\ ninv < MaxInv
    /\ ninv' = ninv + 1
    /\ LET v == upload_validation(batch, keywords)
       IN  IF v.status # 200
           THEN /\ last' = Completed("search_uploaded", "", batch, keywords, v,
                                     "none", 0, {})
                /\ UNCHANGED up
           ELSE /\ up' = [up EXCEPT ![r] =
                            [IdleUpload EXCEPT !.pc = "loop",
                                               !.files = ExcelUploads(batch),
                                               !.keywords = keywords, !.i = 1]]
                /\ UNCHANGED last
    /\ UNCHANGED <<now, results_dir, uploads_dir, faults, matchVars, renderVars, replaceVars, refVars, downloadVars, cellVars>>

SaveOutcomes == {"saved", "failed_no_file", "failed_partial_file"}

Renamed_keepsTempPath(results, original_filename) == results

\* lines 867-868: every record of the file is given the original file name
Renamed(results, original_filename) ==
    [k \in 1..Len(results) |-> [results[k] EXCEPT !.file = BareName(original_filename)]]

\* lines 853-875: one pass of the file loop; save is what excel_file.save does
\* (it may raise before or after it has created the file)
UploadFile(r, save) ==
    /\ up[r].pc = "loop"
    /\ faults + Failures(<<save = "saved">>) <= MaxFaults
    /\ faults' = faults + Failures(<<save = "saved">>)
    /\ LET u == up[r]
           excel_file == u.files[u.i]
           temp_file == TempFile(now, excel_file.filename)
           stored == (temp_file :> excel_file.wb) @@ uploads_dir
           results == search_keywords_in_excel(temp_file, stored[temp_file], u.keywords)
           next_pc == IF u.i = Len(u.files) THEN "render" ELSE "loop"
       IN  IF save = "saved"
           THEN /\ uploads_dir' = stored
                /\ up' = [up EXCEPT ![r] =
                            [u EXCEPT !.temp_file_paths = Append(@, temp_file),
                                      !.all_results =
                                          @ \o Renamed(results, excel_file.filename),
                                      !.staged = @ \cup {temp_file},
                                      !.i = @ + 1, !.pc = next_pc]]
           ELSE IF save = "failed_partial_file"
           THEN /\ uploads_dir' = (temp_file :> CorruptWorkbook) @@ uploads_dir
                /\ up' = [up EXCEPT ![r] =
                            [u EXCEPT !.staged = @ \cup {temp_file},
                                      !.i = @ + 1, !.pc = next_pc]]
           ELSE /\ uploads_dir' = uploads_dir
                /\ up' = [up EXCEPT ![r] = [u EXCEPT !.i = @ + 1, !.pc = next_pc]]
    /\ UNCHANGED <<now, results_dir, ninv, last, matchVars, renderVars, replaceVars, refVars, downloadVars, cellVars>>

\* lines 877-884
UploadRender(r, save_ok, hl_ok) ==
    /\ up[r].pc = "render"
    /\ faults + Failures(<<save_ok, hl_ok>>) <= MaxFaults
    /\ faults' = faults + Failures(<<save_ok, hl_ok>>)
    /\ LET u == up[r]
           outcome == RenderOutcome(u.all_results, u.keywords, save_ok, hl_ok)
           name == Timestamp(now)
       IN  /\ results_dir' = SaveResults(results_dir, name, u.all_results,
                                         u.keywords, hl_ok, outcome)
           /\ up' = [up EXCEPT ![r] =
                       [u EXCEPT !.render = outcome, !.pc = "cleanup",
                                 !.output_file = output_file_str(name, outcome)]]
    /\ UNCHANGED <<now, uploads_dir, ninv, last, matchVars, renderVars, replaceVars, refVars, downloadVars, cellVars>>

\* lines 886-892: the temp files the unlink loop removes, when the unlink of the
\* paths at the positions in failing raises
Unlinked(temp_file_paths, failing) ==
    {temp_file_paths[j] : j \in (1..Len(temp_file_paths)) \ failing}

\* lines 886-892: the uploads directory after the unlink loop
cleanup(dir, temp_file_paths, failing) ==
    [p \in (DOMAIN dir) \ Unlinked(temp_file_paths, failing) |-> dir[p]]

upload_response_countsMatched(all_results, files_searched, output_file, outcome) ==
    [status |-> 200, success |-> TRUE, error |-> "", results |-> all_results,
     total_matches |-> Len(all_results),
     files_searched |-> Cardinality({all_results[i].file : i \in 1..Len(all_results)}),
     output_file |-> output_file]

\* lines 907-913
upload_response(all_results, files_searched, output_file, outcome) ==
    [status |-> 200, success |-> TRUE, error |-> "", results |-> all_results,
     total_matches |-> Len(all_results), files_searched |-> files_searched,
     output_file |-> output_file]

\* lines 886-913: the unlink loop and the response
UploadFinish(r, failing) ==
    /\ up[r].pc = "cleanup"
    /\ faults + Cardinality(failing) <= MaxFaults
    /\ faults' = faults + Cardinality(failing)
    /\ LET u == up[r]
       IN  /\ uploads_dir' = cleanup(uploads_dir, u.temp_file_paths, failing)
           /\ last' = Completed("search_uploaded", "", u.files, u.keywords,
                          upload_response(u.all_results, Len(u.files),
                                          u.output_file, u.render),
                          u.render, Len(u.temp_file_paths), u.staged)
           /\ up' = [up EXCEPT ![r] = IdleUpload]
    /\ UNCHANGED <<now, results_dir, ninv, matchVars, renderVars, replaceVars, refVars, downloadVars, cellVars>>

\* time passes
Tick ==
    /\ now < MaxNow
    /\ now' = now + 1
    /\ UNCHANGED <<results_dir, uploads_dir, ninv, last, up, faults, matchVars,
                   renderVars, replaceVars, refVars, downloadVars, cellVars>>

SearchStart ==
    /\ now = 0
    /\ results_dir = <<>>
    /\ uploads_dir = <<>>
    /\ ninv = 0
    /\ last = NothingCompleted
    /\ up = [r \in Reqs |-> IdleUpload]
    /\ faults = 0

SearchIdle == SearchStart

SearchNext ==
    \/ \E folder_path \in FolderPaths, keywords \in SearchKeywordLists,
          save_ok \in BOOLEAN, hl_ok \in BOOLEAN :
            Search(folder_path, keywords, save_ok, hl_ok)
    \/ \E r \in Reqs, batch \in UploadBatches, keywords \in SearchKeywordLists :
            UploadStart(r, batch, keywords)
    \/ \E r \in Reqs, save \in SaveOutcomes : UploadFile(r, save)
    \/ \E r \in Reqs, save_ok \in BOOLEAN, hl_ok \in BOOLEAN :
            UploadRender(r, save_ok, hl_ok)
    \/ \E r \in Reqs : \E failing \in SUBSET (1..Len(up[r].temp_file_paths)) :
            UploadFinish(r, failing)
    \/ Tick

\* Two /api/search-files requests served at the same time, each uploading a
\* file named a.xlsx with its own content
ConcurrentReqs == {"u1", "u2"}

ConcurrentBatches ==
    {<<Blob("a.xlsx", WbInvoice)>>, <<Blob("a.xlsx", WbNumbers)>>}

UploadsStart ==
    /\ now = 0
    /\ results_dir = <<>>
    /\ uploads_dir = <<>>
    /\ ninv = 0
    /\ last = NothingCompleted
    /\ up = [r \in ConcurrentReqs |-> IdleUpload]
    /\ faults = 0

UploadsNext ==
    \/ \E r \in ConcurrentReqs, batch \in ConcurrentBatches :
            UploadStart(r, batch, <<KeyInv, KeyA, KeyOne>>)
    \/ \E r \in ConcurrentReqs, save \in SaveOutcomes : UploadFile(r, save)
    \/ \E r \in ConcurrentReqs, save_ok \in BOOLEAN, hl_ok \in BOOLEAN :
            UploadRender(r, save_ok, hl_ok)
    \/ \E r \in ConcurrentReqs :
          \E failing \in SUBSET (1..Len(up[r].temp_file_paths)) :
            UploadFinish(r, failing)
    \/ Tick

-----------------------------------------------------------------------------
(* Bulk search-replace: search_replace_files *)

\* A path of the folder: a stem and its suffixes, "notes.txt" as notes + <<".txt">>
FilePath(stem, suffixes) == [stem |-> stem, suffixes |-> suffixes]

\* file_path.suffix
Suffix(path) == path.suffixes[Len(path.suffixes)]

\* lines 1423 and 1532: file_path.with_suffix(file_path.suffix + '.bak')
backup_path_of(path) == [path EXCEPT !.suffixes = Append(@, ".bak")]

\* line 1407
is_excel(path) == Suffix(path) \in {".xlsx", ".xls"}

compile_acceptsAll(search_pattern, use_regex) ==
    [ok |-> TRUE,
     atoms |-> [i \in 1..Len(search_pattern) |->
                  [any |-> FALSE, ch |-> search_pattern[i]]]]

\* lines 1393-1401: the compiled pattern, one atom per character.  With
\* use_regex a "." matches any character but a newline and an unclosed "("
\* is a syntax error; without it re.escape makes every character literal.
Literal(c) == [any |-> FALSE, ch |-> c]
AnyChar == [any |-> TRUE, ch |-> "."]

compile(search_pattern, use_regex) ==
    IF use_regex
    THEN IF \E i \in 1..Len(search_pattern) : search_pattern[i] = "("
         THEN [ok |-> FALSE, atoms |-> <<>>]
         ELSE [ok |-> TRUE,
               atoms |-> [i \in 1..Len(search_pattern) |->
                            IF search_pattern[i] = "." THEN AnyChar
                            ELSE Literal(search_pattern[i])]]
    ELSE [ok |-> TRUE,
          atoms |-> [i \in 1..Len(search_pattern) |-> Literal(search_pattern[i])]]

AtomMatches(atom, c) == IF atom.any THEN c # "\n" ELSE c = atom.ch

\* the pattern matches text at the 0-based position pos
MatchesAt(atoms, text, pos) ==
    /\ pos + Len(atoms) <= Len(text)
    /\ \A j \in 1..Len(atoms) : AtomMatches(atoms[j], text[pos + j])

RECURSIVE FindFrom(_, _, _)
\* pattern.finditer(text) from position pos: leftmost, non-overlapping spans
FindFrom(atoms, text, pos) ==
    LET hits == {p \in pos..(Len(text) - Len(atoms)) : MatchesAt(atoms, text, p)}
        first == CHOOSE p \in hits : \A q \in hits : p <= q
    IN  IF hits = {} THEN <<>>
        ELSE <<[start |-> first, end |-> first + Len(atoms)]>>
             \o FindFrom(atoms, text, first + Len(atoms))

finditer(atoms, text) == FindFrom(atoms, text, 0)

\* text[a:b]
Slice(text, a, b) == SubSeq(text, a + 1, b)

Max(a, b) == IF a >= b THEN a ELSE b
Min(a, b) == IF a <= b THEN a ELSE b

RECURSIVE SubstituteFrom(_, _, _, _, _)
\* text from position pos on with the spans from the k-th on replaced
SubstituteFrom(text, spans, repl, pos, k) ==
    IF k > Len(spans) THEN Slice(text, pos, Len(text))
    ELSE Slice(text, pos, spans[k].start) \o repl
         \o SubstituteFrom(text, spans, repl, spans[k].end, k + 1)

\* lines 1462 and 1537: pattern.sub(replace_pattern, text)
pattern_sub(atoms, repl, text) == SubstituteFrom(text, finditer(atoms, text), repl, 0, 1)

\* lines 1464 and 1539: text.replace(search_pattern, replace_pattern)
str_replace(text, search_pattern, repl) ==
    SubstituteFrom(text, finditer(compile(search_pattern, FALSE).atoms, text), repl, 0, 1)

\* lines 1461-1464 and 1536-1539
new_text(req, atoms, text) ==
    IF req.use_regex THEN pattern_sub(atoms, req.replace_pattern, text)
    ELSE str_replace(text, req.search_pattern, req.replace_pattern)

\* the positions of "\n" in text[a:b]
Newlines(text, a, b) == {i \in (a + 1)..b : text[i] = "\n"}

TextMatch_wholePrefix(content, span) ==
    [line |-> Cardinality(Newlines(content, 0, span.start)) + 1,
     start |-> span.start,
     end |-> span.end,
     match_text |-> Slice(content, span.start, span.end),
     line_content |-> content,
     context_before |-> Slice(content, 0, span.start),
     context_after |-> Slice(content, span.end,
                             Min(Len(content), span.end + ContextLen)),
     sheet |-> <<>>,
     column |-> <<>>]

\* lines 1508-1527: the record of one match in a text file
TextMatch(content, span) ==
    LET before == Newlines(content, 0, span.start)
        after == Newlines(content, span.end, Len(content))
        line_start == IF before = {} THEN 0
                      ELSE CHOOSE i \in before : \A j \in before : j <= i
        line_end == IF after = {} THEN Len(content)
                    ELSE (CHOOSE i \in after : \A j \in after : i <= j) - 1
    IN  [line |-> Cardinality(before) + 1,
         start |-> span.start,
         end |-> span.end,
         match_text |-> Slice(content, span.start, span.end),
         line_content |-> Slice(content, line_start, line_end),
         context_before |-> Slice(content, Max(0, span.start - ContextLen), span.start),
         context_after |-> Slice(content, span.end,
                                 Min(Len(content), span.end + ContextLen)),
         sheet |-> <<>>,
         column |-> <<>>]

\* lines 1444-1456: the record of one match in a cell
CellMatch(sheet_name, row, col, cell_value, span) ==
    [line |-> row,
     start |-> span.start,
     end |-> span.end,
     match_text |-> Slice(cell_value, span.start, span.end),
     line_content |-> cell_value,
     context_before |-> Slice(cell_value, Max(0, span.start - ContextLen), span.start),
     context_after |-> Slice(cell_value, span.end,
                             Min(Len(cell_value), span.end + ContextLen)),
     sheet |-> sheet_name,
     column |-> number_to_excel_column(col)]

\* lines 1432-1456: the match records of one sheet, cell by cell
SheetMatches(sheet, atoms) ==
    Flatten([r \in 1..Len(sheet.rows) |->
        Flatten([c \in 1..Len(sheet.rows[r]) |->
            IF sheet.rows[r][c] = None THEN <<>>
            ELSE LET cell_value == Str(sheet.rows[r][c])
                     spans == finditer(atoms, cell_value)
                 IN  [k \in 1..Len(spans) |->
                        CellMatch(sheet.name, r, c, cell_value, spans[k])]])])

\* lines 1458-1467: the sheet after cell.value = new_value in every cell that
\* has a match
SheetReplaced(sheet, req, atoms) ==
    [sheet EXCEPT !.rows =
        [r \in 1..Len(sheet.rows) |->
            [c \in 1..Len(sheet.rows[r]) |->
                IF sheet.rows[r][c] = None THEN None
                ELSE IF finditer(atoms, Str(sheet.rows[r][c])) = <<>>
                     THEN sheet.rows[r][c]
                     ELSE S(new_text(req, atoms, Str(sheet.rows[r][c])))]]]

\* the sheets iterated before the first chart sheet, whose iteration raises
SheetsBeforeChart(sheets) ==
    LET charts == {i \in 1..Len(sheets) : sheets[i].chart}
    IN  IF charts = {} THEN sheets
        ELSE SubSeq(sheets, 1, (CHOOSE i \in charts : \A j \in charts : i <= j) - 1)

FileResult(path, matches, replaced, backup, error) ==
    [file_path |-> path, file_name |-> path, matches |-> matches,
     total_matches |-> Len(matches), replaced |-> replaced,
     backup_path |-> backup, error |-> error]

ErrorResult_silent(path, error) == FileResult(path, <<>>, FALSE, <<>>, "")

\* lines 1482-1488 and 1552-1558: the entry of a file whose processing raised
ErrorResult(path, error) == FileResult(path, <<>>, FALSE, <<>>, error)

\* what one pass of the file loop did: the files after it, the entries it
\* appended and what it added to total_replacements
Pass(files, entries, replacements) ==
    [files |-> files, entries |-> entries, replacements |-> replacements]

excel_backup_wanted_always(preview_only) == TRUE

\* line 1422
excel_backup_wanted(preview_only) == ~preview_only

\* lines 1411-1488: one spreadsheet; fault names the I/O operation that fails
process_excel(files, path, req, atoms, fault) ==
    LET wb == files[path]
        backed_up == IF excel_backup_wanted(req.preview_only)
                     THEN (backup_path_of(path) :> wb) @@ files
                     ELSE files
        scanned == SheetsBeforeChart(wb.sheets)
        matches == Flatten([i \in 1..Len(scanned) |-> SheetMatches(scanned[i], atoms)])
        counted == IF req.preview_only THEN 0 ELSE Len(matches)
        new_wb == [wb EXCEPT !.sheets =
                      [i \in 1..Len(wb.sheets) |-> SheetReplaced(wb.sheets[i], req, atoms)]]
    IN  IF fault = "read" \/ ~wb.openable
        THEN Pass(files, <<ErrorResult(path, "load_workbook")>>, 0)
        ELSE IF excel_backup_wanted(req.preview_only) /\ fault = "backup"
        THEN Pass(files, <<ErrorResult(path, "copy2")>>, 0)
        ELSE IF Len(scanned) < Len(wb.sheets)
        THEN Pass(backed_up, <<ErrorResult(path, "iter_rows")>>, counted)
        ELSE IF ~req.preview_only /\ Len(matches) > 0
        THEN IF fault \in {"write_denied", "write_truncated"}
             THEN Pass(backed_up, <<ErrorResult(path, "save")>>, counted)
             ELSE Pass((path :> new_wb) @@ backed_up,
                       <<FileResult(path, matches, TRUE, <<backup_path_of(path)>>, "")>>,
                       counted)
        ELSE Pass(backed_up,
                  IF Len(matches) > 0
                  THEN <<FileResult(path, matches, FALSE,
                                    IF req.preview_only THEN <<>>
                                    ELSE <<backup_path_of(path)>>, "")>>
                  ELSE <<>>,
                  counted)

\* lines 1490-1558: one text file; fault names the I/O operation that fails
process_text(files, path, req, atoms, fault) ==
    LET content == files[path]
        spans == finditer(atoms, content)
        matches == [k \in 1..Len(spans) |-> TextMatch(content, spans[k])]
        backed_up == (backup_path_of(path) :> content) @@ files
    IN  IF fault = "read" THEN Pass(files, <<ErrorResult(path, "read")>>, 0)
        ELSE IF Len(spans) = 0 THEN Pass(files, <<>>, 0)
        ELSE IF req.preview_only
        THEN Pass(files, <<FileResult(path, matches, FALSE, <<>>, "")>>, 0)
        ELSE IF fault = "backup" THEN Pass(files, <<ErrorResult(path, "copy2")>>, 0)
        ELSE IF fault = "write_denied"
        THEN Pass(backed_up, <<ErrorResult(path, "open")>>, 0)
        ELSE IF fault = "write_truncated"
        THEN Pass((path :> <<>>) @@ backed_up, <<ErrorResult(path, "write")>>, 0)
        ELSE Pass((path :> new_text(req, atoms, content)) @@ backed_up,
                  <<FileResult(path, matches, TRUE, <<backup_path_of(path)>>, "")>>,
                  Len(matches))

\* lines 1404-1558: one pass of the file loop
process_file(files, path, req, atoms, fault) ==
    IF is_excel(path) THEN process_excel(files, path, req, atoms, fault)
    ELSE process_text(files, path, req, atoms, fault)

\* lines 1359-1365: the inputs of a request
ReplaceRequest(folder_path, search_pattern, replace_pattern, use_regex, file_extensions, preview_only) ==
    [folder_path |-> folder_path, search_pattern |-> search_pattern,
     replace_pattern |-> replace_pattern, use_regex |-> use_regex,
     file_extensions |-> file_extensions, preview_only |-> preview_only]

\* lines 1377-1384: the files of the folder with one of the extensions
target_files(files, file_extensions) ==
    {path \in DOMAIN files : Suffix(path) \in file_extensions}

ReplaceError(status, error) ==
    [status |-> status, success |-> FALSE, error |-> error, results |-> <<>>,
     total_files |-> 0, files_with_matches |-> 0, total_replacements |-> 0,
     preview_only |-> FALSE]

\* lines 1367-1401: the rejection of a request, or status 200 to go on
replace_validation(files, req) ==
    IF req.folder_path = "" THEN ReplaceError(400, "no folder path")
    ELSE IF Len(req.search_pattern) = 0 THEN ReplaceError(400, "no search pattern")
    ELSE IF req.folder_path # DocsFolder THEN ReplaceError(404, "folder not found")
    ELSE IF target_files(files, req.file_extensions) = {}
         THEN ReplaceError(404, "no target files")
    ELSE IF ~compile(req.search_pattern, req.use_regex).ok
         THEN ReplaceError(400, "regex error")
    ELSE [status |-> 200]

\* lines 1560-1567
replace_response(results, total_files, total_replacements, preview_only) ==
    [status |-> 200, success |-> TRUE, error |-> "", results |-> results,
     total_files |-> total_files,
     files_with_matches |->
         Cardinality({i \in 1..Len(results) : results[i].total_matches > 0}),
     total_replacements |-> total_replacements,
     preview_only |-> preview_only]

IdleReplace ==
    [pc |-> "idle", req |-> ReplaceRequest("", <<>>, <<>>, FALSE, {}, TRUE),
     atoms |-> <<>>, todo |-> {}, total_files |-> 0, results |-> <<>>,
     total_replacements |-> 0]

\* lines 1358-1402: validation, the target files and the compiled pattern
ReplaceBegin(req) ==
    /\ rp.pc = "idle"
    /\ rn < MaxInv
    /\ rn' = rn + 1
    /\ LET v == replace_validation(fsys, req)
       IN  IF v.status # 200
           THEN /\ rlast' = v
                /\ UNCHANGED rp
           ELSE /\ rp' = [pc |-> "files", req |-> req,
                          atoms |-> compile(req.search_pattern, req.use_regex).atoms,
                          todo |-> target_files(fsys, req.file_extensions),
                          total_files |->
                              Cardinality(target_files(fsys, req.file_extensions)),
                          results |-> <<>>, total_replacements |-> 0]
                /\ UNCHANGED rlast
    /\ UNCHANGED <<fsys, fsys0, rfaults, matchVars, renderVars, searchVars, refVars,
                   downloadVars, cellVars>>

Faults == {"none", "read", "backup", "write_denied", "write_truncated"}

\* lines 1404-1558: the pass of the file loop for one of the remaining target
\* files (list(set(...)) fixes no order)
ReplaceFile(path, fault) ==
    /\ rp.pc = "files"
    /\ path \in rp.todo
    /\ rfaults + Failures(<<fault = "none">>) <= MaxFaults
    /\ rfaults' = rfaults + Failures(<<fault = "none">>)
    /\ LET pass == process_file(fsys, path, rp.req, rp.atoms, fault)
       IN  /\ fsys' = pass.files
           /\ rp' = [rp EXCEPT !.todo = @ \ {path},
                               !.results = @ \o pass.entries,
                               !.total_replacements = @ + pass.replacements]
    /\ UNCHANGED <<fsys0, rlast, rn, matchVars, renderVars, searchVars, refVars,
                   downloadVars, cellVars>>

\* lines 1560-1567: the response, once every target file has been processed;
\* the next invocation finds the files as this one leaves them
ReplaceFinish ==
    /\ rp.pc = "files"
    /\ rp.todo = {}
    /\ rlast' = replace_response(rp.results, rp.total_files, rp.total_replacements,
                                 rp.req.preview_only)
    /\ rp' = IdleReplace
    /\ fsys0' = fsys
    /\ UNCHANGED <<fsys, rn, rfaults, matchVars, renderVars, searchVars, refVars, downloadVars, cellVars>>

NotesTxt == FilePath("notes", <<".txt">>)
BookXlsx == FilePath("book", <<".xlsx">>)

InitialFiles ==
    (NotesTxt :> <<"a", ".", "\n", "a">>)
    @@ (BookXlsx :> Workbook(<<Worksheet(Sheet1, << <<S(<<"a", "a">>), None, N(1)>> >>)>>))

ReplaceStart ==
    /\ fsys = InitialFiles
    /\ fsys0 = InitialFiles
    /\ rp = IdleReplace
    /\ rlast = ReplaceError(0, "no response")
    /\ rn = 0
    /\ rfaults = 0

ReplaceIdle == ReplaceStart

ReplaceFolders == {"", "/missing", DocsFolder}
SearchPatterns == {<<>>, <<"a">>, <<".">>, <<"(">>}
ReplacePatterns == {<<"b">>}
ExtensionLists == {{".txt"}, {".txt", ".xlsx"}, {".csv"}}

ReplaceNext ==
    \/ \E folder_path \in ReplaceFolders, search_pattern \in SearchPatterns,
          replace_pattern \in ReplacePatterns, use_regex \in BOOLEAN,
          file_extensions \in ExtensionLists, preview_only \in BOOLEAN :
            ReplaceBegin(ReplaceRequest(folder_path, search_pattern, replace_pattern,
                                        use_regex, file_extensions, preview_only))
    \/ \E path \in DOMAIN fsys, fault \in Faults : ReplaceFile(path, fault)
    \/ ReplaceFinish

\* The folder after an earlier non-preview replacement of "." by "b" in
\* notes.txt: the file and the backup that invocation left beside it
FilesWithBackup ==
    (NotesTxt :> <<"a", "b", "\n", "a">>)
    @@ (backup_path_of(NotesTxt) :> <<"a", ".", "\n", "a">>)

BackupStart ==
    /\ fsys = FilesWithBackup
    /\ fsys0 = FilesWithBackup
    /\ rp = IdleReplace
    /\ rlast = ReplaceError(0, "no response")
    /\ rn = 0
    /\ rfaults = 0

\* requests whose file_extensions may name the backup files themselves
BackupExtensionLists == {{".txt"}, {".bak"}, {".txt", ".bak"}}

BackupNext ==
    \/ \E search_pattern \in SearchPatterns, use_regex \in BOOLEAN,
          file_extensions \in BackupExtensionLists, preview_only \in BOOLEAN :
            ReplaceBegin(ReplaceRequest(DocsFolder, search_pattern, <<"b">>,
                                        use_regex, file_extensions, preview_only))
    \/ \E path \in DOMAIN fsys, fault \in Faults : ReplaceFile(path, fault)
    \/ ReplaceFinish

\* Contents longer than the context window: a short text between two runs
\* of "x" whose lengths lie around ContextLen
Pad(n) == [i \in 1..n |-> "x"]

ContextPads == {0, ContextLen - 1, ContextLen, ContextLen + 1}

LongTexts ==
    {Pad(n) \o mid \o Pad(m) :
        n \in ContextPads, m \in ContextPads,
        mid \in {<<"a">>, <<"a", "\n", "a", ".">>}}

\* the folder holds the text as a file and as the one cell of a workbook
LongFiles(text) ==
    (NotesTxt :> text)
    @@ (BookXlsx :> Workbook(<<Worksheet(Sheet1, << <<None, S(text)>> >>)>>))

ContextStart ==
    /\ fsys \in {LongFiles(text) : text \in LongTexts}
    /\ fsys0 = fsys
    /\ rp = IdleReplace
    /\ rlast = ReplaceError(0, "no response")
    /\ rn = 0
    /\ rfaults = 0

ContextNext ==
    \/ \E use_regex \in BOOLEAN, preview_only \in BOOLEAN :
            ReplaceBegin(ReplaceRequest(DocsFolder,
                                        IF use_regex THEN <<"a">> ELSE <<".">>,
                                        <<"b">>, use_regex, {".txt", ".xlsx"},
                                        preview_only))
    \/ \E path \in DOMAIN fsys : ReplaceFile(path, "none")
    \/ ReplaceFinish

-----------------------------------------------------------------------------
(* Result download: download_results *)

\* the name of the result file written at a timestamp, lines 697-698:
\* search_results_<timestamp>.xlsx, shortened to s_<timestamp>.xlsx
ArtifactName(stamp) == <<"s", "_">> \o IntStr(stamp) \o <<".", "x", "l", "s", "x">>

ResultsPrefix == <<"r", "e", "s", "u", "l", "t", "s", "/">>

\* text.startswith(prefix)
StartsWith(text, prefix) ==
    Len(text) >= Len(prefix) /\ SubSeq(text, 1, Len(prefix)) = prefix

RECURSIVE LStripSlash(_)
\* line 1117: text.lstrip('/\\')
LStripSlash(text) ==
    IF text # <<>> /\ Head(text) = "/" THEN LStripSlash(Tail(text)) ELSE text

\* Path(text).name: what follows the last "/"
LastComponent(text) ==
    LET slashes == {i \in 1..Len(text) : text[i] = "/"}
    IN  IF slashes = {} THEN text
        ELSE SubSeq(text, (CHOOSE i \in slashes : \A j \in slashes : j <= i) + 1,
                    Len(text))

\* lines 1107-1117: a relative path without its results/ prefix and its
\* leading slashes
download_normalize(file_path) ==
    LStripSlash(IF StartsWith(Lower(file_path), ResultsPrefix)
                THEN SubSeq(file_path, Len(ResultsPrefix) + 1, Len(file_path))
                ELSE file_path)

\* the greatest element of a non-empty set of timestamps
Latest(stamps) == CHOOSE t \in stamps : \A u \in stamps : u <= t

\* lines 100-109 and 1104: RESULTS_FOLDER.resolve(), the components of the
\* absolute path /app/results
results_folder_abs == << <<"a", "p", "p">>, <<"r", "e", "s", "u", "l", "t", "s">> >>

\* a file of the machine that is not in the results folder: /app/k
OutsideFiles == (<< <<"a", "p", "p">>, <<"k">> >> :> "key")

RECURSIVE Components(_)
\* the components of a path: the pieces between its "/" separators
Components(text) ==
    LET slashes == {i \in 1..Len(text) : text[i] = "/"}
        first == CHOOSE i \in slashes : \A k \in slashes : i <= k
    IN  IF slashes = {} THEN <<text>>
        ELSE <<SubSeq(text, 1, first - 1)>>
             \o Components(SubSeq(text, first + 1, Len(text)))

RECURSIVE Resolve(_, _)
\* lines 1126 and 1129: Path.resolve() of the path made of done followed by
\* parts: empty and "." components dropped, ".." steps to the parent
Resolve(done, parts) ==
    IF parts = <<>> THEN done
    ELSE Resolve(IF Head(parts) = <<>> \/ Head(parts) = <<".">> THEN done
                 ELSE IF Head(parts) = <<".", ".">>
                      THEN SubSeq(done, 1, Len(done) - 1)
                      ELSE Append(done, Head(parts)),
                 Tail(parts))

\* path is a folder of the machine: an ancestor of a file, or the results
\* folder itself
IsFolder(path) ==
    \E f \in DOMAIN OutsideFiles \cup {results_folder_abs \o << <<"x">> >>} :
        Len(path) < Len(f) /\ SubSeq(f, 1, Len(path)) = path

DownloadError(file_path, status) ==
    [req |-> file_path, status |-> status, served |-> <<>>, content |-> "none",
     location |-> <<>>]

\* lines 1172-1177: send_file of the result file written at stamp
SendFile(file_path, store, stamp) ==
    [req |-> file_path, status |-> 200, served |-> <<stamp>>,
     content |-> store[stamp],
     location |-> Append(results_folder_abs, ArtifactName(stamp))]

\* lines 1088-1177: the file at the resolved path (an absolute path as it
\* is, a relative one below the results folder); else a file of the results
\* folder with the same name; else one whose name contains the requested
\* name or is contained in it, the latest written first (files written
\* later have later timestamps); else 404.  send_file of a folder raises: 500
download_results(store, file_path) ==
    LET isabs == file_path # <<>> /\ Head(file_path) = "/"
        normalized == IF isabs THEN file_path ELSE download_normalize(file_path)
        file_path_obj == IF isabs THEN Resolve(<<>>, Components(normalized))
                         ELSE Resolve(results_folder_abs, Components(normalized))
        exists == {t \in DOMAIN store :
                     Append(results_folder_abs, ArtifactName(t)) = file_path_obj}
        file_name_only == LastComponent(normalized)
        same_name == {t \in DOMAIN store : ArtifactName(t) = file_name_only}
        partial == {t \in DOMAIN store :
                      \/ IsSubstring(file_name_only, ArtifactName(t))
                      \/ IsSubstring(ArtifactName(t), file_name_only)}
    IN  IF file_path = <<>> THEN DownloadError(file_path, 400)
        ELSE IF normalized = <<>> THEN DownloadError(file_path, 400)
        ELSE IF exists # {} THEN SendFile(file_path, store, Latest(exists))
        ELSE IF file_path_obj \in DOMAIN OutsideFiles
             THEN [req |-> file_path, status |-> 200, served |-> <<>>,
                   content |-> OutsideFiles[file_path_obj],
                   location |-> file_path_obj]
        ELSE IF IsFolder(file_path_obj) THEN DownloadError(file_path, 500)
        ELSE IF same_name # {} THEN SendFile(file_path, store, Latest(same_name))
        ELSE IF partial # {} THEN SendFile(file_path, store, Latest(partial))
        ELSE DownloadError(file_path, 404)

NoDownload == DownloadError(<<>>, 0)

ArtifactContents == {"wbA", "wbB"}

\* the results folder holds the files earlier searches have written
DownloadStart ==
    /\ dl_store \in UNION {[D -> ArtifactContents] : D \in SUBSET (0..MaxStamp)}
    /\ dl_resp = NoDownload

DownloadIdle ==
    /\ dl_store = <<>>
    /\ dl_resp = NoDownload

DownloadRequests ==
    {ArtifactName(t) : t \in 0..MaxStamp}
    \cup {ResultsPrefix \o ArtifactName(t) : t \in 0..MaxStamp}
    \cup {<<>>, ResultsPrefix, <<"s", "_">>, <<".", "x", "l", "s", "x">>,
          ArtifactName(0) \o <<".", "b", "a", "k">>,
          <<"o", "l", "d", "/">> \o ArtifactName(1),
          <<"q", ".", "x", "l", "s", "x">>}
    \cup {<<"/", "a", "p", "p", "/", "k">>, <<".", ".", "/", "k">>,
          <<"/", "a", "p", "p", "/", "r", "e", "s", "u", "l", "t", "s", "/">>
             \o ArtifactName(0),
          <<"o", "l", "d", "/", ".", ".", "/">> \o ArtifactName(1),
          <<".", ".">>, <<"/", "q">>}

\* GET /api/download-results?file_path=...
Download(file_path) ==
    /\ dl_resp' = download_results(dl_store, file_path)
    /\ UNCHANGED <<dl_store, matchVars, renderVars, searchVars, replaceVars, refVars,
                   cellVars>>

DownloadNext == \E file_path \in DownloadRequests : Download(file_path)

-----------------------------------------------------------------------------
(* Cell context: get_cell_details *)

\* the workbook files the handler can be pointed at; any other path does not
\* exist
CellBook ==
    Workbook(<<Worksheet(Sheet1, << <<S(<<"h">>), S(<<"k">>)>>,
                                    <<N(1), None>>,
                                    <<None, S(<<"a">>)>> >>),
               Chartsheet(<<"C">>),
               Worksheet(<<"E">>, <<>>)>>)

CellFiles == ("/book.xlsx" :> CellBook) @@ ("/bad.xlsx" :> CorruptWorkbook)

\* wb.sheetnames: worksheets and chart sheets alike
SheetNamed(wb, sheet_name) ==
    {i \in 1..Len(wb.sheets) : wb.sheets[i].name = sheet_name}

RECURSIVE MaxLen(_)
\* the longest of a sequence of rows
MaxLen(rows) == IF rows = <<>> THEN 0 ELSE Max(Len(Head(rows)), MaxLen(Tail(rows)))

\* sheet.max_row and sheet.max_column, 1 for a sheet without cells
max_row(sheet) == Max(1, Len(sheet.rows))
max_column(sheet) == Max(1, MaxLen(sheet.rows))

\* sheet.cell(row=r, column=c).value; a cell never written holds None
cell_value(sheet, r, c) ==
    IF r <= Len(sheet.rows) /\ c <= Len(sheet.rows[r]) THEN sheet.rows[r][c] ELSE None

\* str(cell.value) if cell.value is not None else ''
ValueText(value) == IF value = None THEN <<>> ELSE Str(value)

CellFailure(status, error) ==
    [status |-> status, error |-> error, context |-> <<>>,
     target_cell |-> [row |-> 0, col |-> 0, value |-> <<>>], max_row |-> 0, max_col |-> 0]

\* lines 1009-1026: the rows start_row..end_row, each with the columns
\* 1..max_column
context_rows_of(sheet, row, col, context_rows) ==
    LET start_row == Max(1, row - context_rows)
        end_row == Min(max_row(sheet), row + context_rows)
    IN  [k \in 1..Max(0, end_row - start_row + 1) |->
            [c \in 1..max_column(sheet) |->
                [row |-> start_row + k - 1, col |-> c,
                 value |-> ValueText(cell_value(sheet, start_row + k - 1, c)),
                 is_target |-> (start_row + k - 1 = row /\ c = col),
                 is_header |-> (start_row + k - 1 = 1)]]]

\* lines 986-1050.  The sheet.cell call of line 1029 creates the target cell
\* when the sheet has none there, so the max_row and max_column reported
\* afterwards include it.  load_workbook raises on a file that is no workbook, a
\* chart sheet has no max_row, and sheet.cell raises for a row or column
\* below 1: the handler of line 1049 turns each into status 500
get_cell_details(files, req) ==
    IF req.file_path = "" \/ req.sheet_name = <<>> \/ req.row = 0 \/ req.col = 0
    THEN CellFailure(400, "missing parameter")
    ELSE IF req.file_path \notin DOMAIN files
    THEN CellFailure(404, "file not found")
    ELSE IF ~files[req.file_path].openable
    THEN CellFailure(500, "exception")
    ELSE IF SheetNamed(files[req.file_path], req.sheet_name) = {}
    THEN CellFailure(404, "sheet not found")
    ELSE LET wb == files[req.file_path]
             sheet == wb.sheets[CHOOSE i \in SheetNamed(wb, req.sheet_name) : TRUE]
         IN  IF sheet.chart \/ req.row < 1 \/ req.col < 1
             THEN CellFailure(500, "exception")
             ELSE [status |-> 200, error |-> "",
                   context |-> context_rows_of(sheet, req.row, req.col,
                                               req.context_rows),
                   target_cell |->
                       [row |-> req.row, col |-> req.col,
                        value |-> ValueText(cell_value(sheet, req.row, req.col))],
                   max_row |-> Max(max_row(sheet), req.row),
                   max_col |-> Max(max_column(sheet), req.col)]

CellRequest(file_path, sheet_name, row, col, context_rows) ==
    [file_path |-> file_path, sheet_name |-> sheet_name, row |-> row, col |-> col,
     context_rows |-> context_rows]

NoCellRequest == CellRequest("", <<>>, 0, 0, 0)

CellIdle ==
    /\ cd_req = NoCellRequest
    /\ cd_resp = CellFailure(0, "no response")

CellPaths == {"", "/book.xlsx", "/bad.xlsx", "/missing.xlsx"}
CellSheetNames == {<<>>, Sheet1, <<"C">>, <<"E">>, <<"X">>}

\* POST /api/get-cell-details; the handler keeps no state between requests, so
\* one request is followed from the idle state
GetCellDetails(req) ==
    /\ cd_resp.status = 0
    /\ cd_req' = req
    /\ cd_resp' = get_cell_details(CellFiles, req)
    /\ UNCHANGED <<matchVars, renderVars, searchVars, replaceVars, refVars,
                   downloadVars>>

CellNext ==
    \E file_path \in CellPaths, sheet_name \in CellSheetNames,
       row \in (0 - 1)..MaxCellRow, col \in (0 - 1)..MaxCellCol,
       context_rows \in (0 - 1)..MaxContext :
        GetCellDetails(CellRequest(file_path, sheet_name, row, col, context_rows))

-----------------------------------------------------------------------------
(* Specifications *)

MatchInit == CellIdle /\ DownloadIdle /\ RefIdle /\ MatchStart /\ RenderIdle /\ SearchIdle /\ ReplaceIdle

RenderInit == CellIdle /\ DownloadIdle /\ RefIdle /\ MatchIdle /\ RenderStart /\ SearchIdle /\ ReplaceIdle

SearchInit == CellIdle /\ DownloadIdle /\ RefIdle /\ MatchIdle /\ RenderIdle /\ SearchStart /\ ReplaceIdle

ReplaceInit == CellIdle /\ DownloadIdle /\ RefIdle /\ MatchIdle /\ RenderIdle /\ SearchIdle /\ ReplaceStart

RefInit == CellIdle /\ DownloadIdle /\ RefStart /\ MatchIdle /\ RenderIdle /\ SearchIdle /\ ReplaceIdle

DownloadInit ==
    CellIdle /\ DownloadStart /\ RefIdle /\ MatchIdle /\ RenderIdle /\ SearchIdle /\ ReplaceIdle

CellInit ==
    CellIdle /\ DownloadIdle /\ RefIdle /\ MatchIdle /\ RenderIdle /\ SearchIdle /\ ReplaceIdle

SpecCell == CellInit /\ [][CellNext]_vars

SpecDownload == DownloadInit /\ [][DownloadNext]_vars

SpecRef == RefInit /\ [][RefNext]_vars

SpecMatch == MatchInit /\ [][MatchNext]_vars

SpecRender == RenderInit /\ [][RenderNext]_vars

Spec == SearchInit /\ [][SearchNext]_vars

BackupInit ==
    CellIdle /\ DownloadIdle /\ RefIdle /\ MatchIdle /\ RenderIdle /\ SearchIdle /\ BackupStart

SpecBackup == BackupInit /\ [][BackupNext]_vars

UploadsInit ==
    CellIdle /\ DownloadIdle /\ RefIdle /\ MatchIdle /\ RenderIdle /\ UploadsStart /\ ReplaceIdle

SpecUploads == UploadsInit /\ [][UploadsNext]_vars

ContextInit ==
    CellIdle /\ DownloadIdle /\ RefIdle /\ MatchIdle /\ RenderIdle /\ SearchIdle /\ ContextStart

SpecContext == ContextInit /\ [][ContextNext]_vars

SpecReplace == ReplaceInit /\ [][ReplaceNext]_vars

-----------------------------------------------------------------------------
(* Claims *)

\* the positions of kw_list whose lowercase form occurs in the lowercase cell text
MatchingPositions ==
    {k \in 1..Len(kw_list) : IsSubstring(Lower(kw_list[k]), Lower(cell_text))}

NthSmallest(P, i) == CHOOSE x \in P : Cardinality({y \in P : y < x}) = i - 1

\* C3: scanning a cell emits exactly one record per keyword position whose
\* lowercase form is a substring of the lowercase cell text, in keyword-list
\* order, without deduplication and at most one per position.
C3_OneRecordPerMatchingPosition ==
    mpc = "done" =>
        /\ Len(frags) = Cardinality(MatchingPositions)
        /\ \A i \in 1..Len(frags) :
              /\ frags[i].keyword = kw_list[NthSmallest(MatchingPositions, i)]
              /\ frags[i].value = cell_text

\* a keyword listed twice matches a cell in a different letter case and yields
\* two records
C3_Witness ==
    /\ mpc = "done"
    /\ Len(kw_list) = 2
    /\ kw_list[1] = kw_list[2]
    /\ Len(frags) = 2
    /\ ~IsSubstring(kw_list[1], cell_text)

-----------------------------------------------------------------------------
(* Claims about the search endpoints, under Spec *)

\* a workbook whose scan raises: it cannot be opened, or one of its sheets
\* cannot be iterated
ScanFails(wb) == ~wb.openable \/ \E i \in 1..Len(wb.sheets) : wb.sheets[i].chart

\* the matches of the workbooks that scan successfully, concatenated
MatchesOfScannable(excel_files, keywords) ==
    Flatten([i \in 1..Len(excel_files) |->
        IF ScanFails(excel_files[i].wb) THEN <<>>
        ELSE search_keywords_in_excel(excel_files[i].path, excel_files[i].wb,
                                      keywords)])

\* C4: in a batch search a workbook that cannot be opened or scanned
\* contributes zero records and never aborts the batch: the results are the
\* concatenation of the matches of the workbooks that scanned successfully,
\* files_searched counts every workbook attempted, and the result is a success.
C4_FailedWorkbookContributesNothing ==
    (last.op = "search" /\ last.opened > 0) =>
        /\ last.resp.status = 200
        /\ last.resp.success
        /\ last.resp.files_searched = Len(Folder(last.folder_path).excel_files)
        /\ last.resp.results =
               MatchesOfScannable(Folder(last.folder_path).excel_files, last.keywords)

\* C5: for every KeywordSet of size 1..N and every non-empty MatchRecord
\* sequence, rendering the result workbook completes without error.
C5_RenderingCompletes ==
    (/\ last.op \in {"search", "search_uploaded"}
     /\ last.resp.status = 200
     /\ Len(last.keywords) >= 1
     /\ Len(last.resp.results) >= 1)
        => last.render # "render_error"

\* C7: every search invocation writes its result workbook under a name no
\* other invocation uses; a result artifact, once written, is never
\* overwritten or otherwise changed by a later invocation.
C7_ArtifactNeverOverwritten ==
    [][\A name \in DOMAIN results_dir : results_dir'[name] = results_dir[name]]_vars

\* C8: when search_uploaded returns, no temporary file that this invocation
\* stored in the uploads directory remains there.
C8_NoTempFileRemains ==
    [][\A r \in Reqs :
          (up[r].pc = "cleanup" /\ up'[r].pc = "idle")
              => up[r].staged \cap DOMAIN uploads_dir' = {}]_vars

\* C9: when the result workbook cannot be constructed or saved, search and
\* search_uploaded still return a success result with the complete computed
\* results, total_matches and files_searched; no record is dropped or altered.
C9_RenderFailureKeepsResults ==
    [][/\ (/\ ninv' = ninv + 1
           /\ up' = up
           /\ last'.op = "search"
           /\ last'.render \in {"render_error", "save_error"})
          => /\ last'.resp.status = 200
             /\ last'.resp.success
             /\ last'.resp.results =
                    Aggregate(Folder(last'.folder_path).excel_files, last'.keywords)
             /\ last'.resp.total_matches = Len(last'.resp.results)
             /\ last'.resp.files_searched = Len(Folder(last'.folder_path).excel_files)
       /\ \A r \in Reqs :
            /\ up[r].pc = "render" => up'[r].all_results = up[r].all_results
            /\ (/\ up[r].pc = "cleanup"
                /\ up'[r].pc = "idle"
                /\ up[r].render \in {"render_error", "save_error"})
               => /\ last'.resp.status = 200
                  /\ last'.resp.success
                  /\ last'.resp.results = up[r].all_results
                  /\ last'.resp.total_matches = Len(up[r].all_results)
                  /\ last'.resp.files_searched = Len(up[r].files)]_vars

\* an upload search whose rendering raised has returned its matches
C9_Witness ==
    /\ last.op = "search_uploaded"
    /\ last.render = "render_error"
    /\ last.resp.status = 200
    /\ Len(last.resp.results) > 0

\* the folder exists, is a directory and holds no workbook file
HasNoWorkbooks(folder_path) ==
    /\ Folder(folder_path).exists
    /\ Folder(folder_path).is_dir
    /\ Len(Folder(folder_path).excel_files) = 0

\* C10: a search request with an empty keyword list fails with InvalidInput
\* (400), and one with keywords and a folder that holds no workbook files
\* fails with NotFound (404); in both cases no workbook is opened and no
\* result artifact is written.
C10_RejectedBeforeAnyWork ==
    [][(ninv' = ninv + 1 /\ up' = up /\ last'.op = "search") =>
          /\ Len(last'.keywords) = 0 =>
                /\ last'.resp.status = 400
                /\ last'.opened = 0
                /\ results_dir' = results_dir
          /\ (Len(last'.keywords) > 0 /\ HasNoWorkbooks(last'.folder_path)) =>
                /\ last'.resp.status = 404
                /\ last'.opened = 0
                /\ results_dir' = results_dir]_vars

\* a search of a folder without workbooks was answered NotFound after an
\* earlier search had written an artifact
C10_Witness ==
    /\ last.op = "search"
    /\ Len(last.keywords) > 0
    /\ HasNoWorkbooks(last.folder_path)
    /\ last.resp.status = 404
    /\ DOMAIN results_dir # {}

-----------------------------------------------------------------------------
(* Claims about the renderer, checked under SpecRender *)

\* the colour of the first position at which keyword stands in keywords
FillOfPosition(keywords, keyword) ==
    LET at == {i \in 1..Len(keywords) : keywords[i] = keyword}
        first == IF at = {} THEN 0 ELSE CHOOSE i \in at : \A j \in at : i <= j
    IN  CASE first = 1 -> LightRed
          [] first = 2 -> LightBlue
          [] first = 3 -> LightGreen
          [] OTHER -> White

\* C6: for every KeywordSet and every MatchRecord the row of the record is
\* filled by the identity of its keyword: light red for the 1st keyword of
\* the KeywordSet, light blue for the 2nd, light green for the 3rd and white
\* for a later keyword or one that is not in the set.
C6_FillByKeywordIdentity ==
    (rpc = "done" /\ Len(r_results) > 0) =>
        /\ r_out.ok
        /\ \A i \in 1..Len(r_results) :
              r_out.rows[i].fills[2] = FillOfPosition(r_keywords, r_results[i].keyword)

\* C19: the rendered workbook has exactly one sheet whose row 1 is the header
\* with the seven columns file name, sheet, row, column, cell value, keyword,
\* file path in that order, and for a record sequence of length N exactly N
\* further rows, row i+1 holding the fields of the i-th record in input order.
C19_OneHeaderAndOneRowPerRecord ==
    rpc = "done" =>
        /\ r_out.ok
        /\ Len(r_out.sheets) = 1
        /\ r_out.header = <<"file_name", "sheet_name", "row", "col", "cell_value",
                            "keyword", "file_path">>
        /\ Len(r_out.rows) = Len(r_results)
        /\ \A i \in 1..Len(r_results) :
              r_out.rows[i].values =
                  <<PathName(r_results[i].file), r_results[i].sheet, r_results[i].row,
                    r_results[i].col, r_results[i].value, r_results[i].keyword,
                    r_results[i].file>>

\* C26: every cell of a data row of the result workbook, the hyperlinked
\* file-name (column 1), cell-value (column 5) and file-path (column 7) cells
\* included, has the row's keyword fill colour as its background.
C26_LinkedCellsAreFilledToo ==
    (rpc = "done" /\ r_out.ok) =>
        \A i \in 1..Len(r_out.rows) : \A col \in 1..7 :
            /\ r_out.rows[i].fills[col] # NoFill
            /\ r_out.rows[i].fills[col] = r_out.rows[i].fills[2]

-----------------------------------------------------------------------------
(* Claims about the bulk search-replace, checked under SpecReplace *)

\* C1: a request with preview_only = true never creates a .bak file and never
\* changes the content of a file, whatever the pattern, the replacement and
\* the files, matches or not; its response has total_replacements = 0 and no
\* entry with replaced = true.
C1_PreviewHasNoSideEffects ==
    [][(rp.pc = "files" /\ rp.req.preview_only) =>
          /\ fsys' = fsys
          /\ rp'.pc = "idle" =>
                /\ rlast'.total_replacements = 0
                /\ \A i \in 1..Len(rlast'.results) : ~rlast'.results[i].replaced]_vars

\* a preview has answered with matches in a text file and in a spreadsheet
C1_Witness ==
    /\ rlast.status = 200
    /\ rlast.preview_only
    /\ \E i, j \in 1..Len(rlast.results) :
          /\ rlast.results[i].total_matches > 0
          /\ rlast.results[j].total_matches > 0
          /\ is_excel(rlast.results[i].file_path)
          /\ ~is_excel(rlast.results[j].file_path)
    /\ fsys = InitialFiles

\* C2: the .bak backup of a file is permanent: no step of a later request
\* removes it or changes the content it holds.
C2_BackupIsPermanent ==
    [][\A path \in DOMAIN fsys :
          Suffix(path) = ".bak" =>
              /\ path \in DOMAIN fsys'
              /\ fsys'[path] = fsys[path]]_vars

\* the requests the model issues
ReplaceRequests ==
    {ReplaceRequest(folder_path, search_pattern, replace_pattern, use_regex,
                    file_extensions, preview_only) :
        folder_path \in ReplaceFolders, search_pattern \in SearchPatterns,
        replace_pattern \in ReplacePatterns, use_regex \in BOOLEAN,
        file_extensions \in ExtensionLists, preview_only \in BOOLEAN}

\* a regular expression re.compile rejects
Unparsable(req) ==
    /\ req.use_regex
    /\ \E i \in 1..Len(req.search_pattern) : req.search_pattern[i] = "("

\* the requests of the model whose pattern re.compile rejects
UnparsableRequests == {req \in ReplaceRequests : Unparsable(req)}

\* the request is answered at once, with no entry and no file touched
RequestLevelError(statuses) ==
    /\ rlast'.status \in statuses
    /\ ~rlast'.success
    /\ rlast'.results = <<>>
    /\ rp' = rp
    /\ fsys' = fsys

\* C11: a request with use_regex = true and an unparsable search pattern fails
\* with InvalidInput (400) as one request-level error: no per-file entry is
\* produced and no target file is read, backed up or modified, in preview and
\* in non-preview mode alike.
C11_UnparsableRegexIsInvalidInput ==
    [][\A req \in UnparsableRequests :
          ReplaceBegin(req) => RequestLevelError({400})]_vars

\* C11 as the code has it: the folder and the target files are checked before
\* the pattern is compiled, so the request fails with InvalidInput (400) when
\* its folder exists and holds target files and with NotFound (404) when the
\* named folder or the target files are missing; in every case it is one
\* request-level error with no per-file entry and no file touched.
C11_UnparsableRegexIsRequestLevel ==
    [][\A req \in UnparsableRequests :
          ReplaceBegin(req) =>
              /\ RequestLevelError({400, 404})
              /\ (req.folder_path = DocsFolder
                    /\ target_files(fsys, req.file_extensions) # {})
                 => (rlast'.status = 400 /\ rlast'.error = "regex error")
              /\ rlast'.status = 404 =>
                    \/ req.folder_path \notin {"", DocsFolder}
                    \/ target_files(fsys, req.file_extensions) = {}]_vars

\* an unparsable pattern was rejected after an earlier request had replaced
\* text and left a backup
C11_Witness ==
    /\ rlast.status = 400
    /\ rlast.error = "regex error"
    /\ rp.pc = "idle"
    /\ \E path \in DOMAIN fsys : Suffix(path) = ".bak"

\* the number of matches the request in progress has in a file
MatchCount(path) ==
    IF is_excel(path)
    THEN Len(Flatten([i \in 1..Len(fsys[path].sheets) |->
                        SheetMatches(fsys[path].sheets[i], rp.atoms)]))
    ELSE Len(finditer(rp.atoms, fsys[path]))

\* the failing I/O operation is one the pass over the file performs
FaultHits(path, fault) ==
    \/ fault = "read"
    \/ fault = "backup" /\ ~rp.req.preview_only
          /\ (is_excel(path) \/ MatchCount(path) > 0)
    \/ fault \in {"write_denied", "write_truncated"} /\ ~rp.req.preview_only
          /\ MatchCount(path) > 0

C28_NoMatchNoTrace ==
    [][\A path \in DOMAIN fsys : \A fault \in Faults :
          (ReplaceFile(path, fault) /\ ~rp.req.preview_only /\ MatchCount(path) = 0)
              => fsys' = fsys]_vars

RECURSIVE ReplacedMatches(_)
\* the sum of total_matches over the entries whose replaced flag is true
ReplacedMatches(results) ==
    IF results = <<>> THEN 0
    ELSE (IF Head(results).replaced THEN Head(results).total_matches ELSE 0)
         + ReplacedMatches(Tail(results))

\* C29: in every response total_replacements is the sum of total_matches over
\* the per-file entries whose replaced flag is true (0 in preview mode,
\* nothing for a file that ended with an error entry), files_with_matches is
\* the number of entries with total_matches > 0, and total_files is the
\* number of distinct target files, none of which has two entries.
C29_TotalsMatchTheEntries ==
    [][(rp.pc = "files" /\ rp'.pc = "idle") =>
          /\ rlast'.total_replacements = ReplacedMatches(rlast'.results)
          /\ rlast'.files_with_matches =
                Cardinality({i \in 1..Len(rlast'.results) :
                               rlast'.results[i].total_matches > 0})
          /\ rlast'.total_files =
                Cardinality(target_files(fsys0, rp.req.file_extensions))
          /\ \A i, j \in 1..Len(rlast'.results) :
                rlast'.results[i].file_path = rlast'.results[j].file_path => i = j]_vars

\* the target files of the invocation in progress
Targets == target_files(fsys0, rp.req.file_extensions)

\* C22: in a non-preview invocation, whenever the content of a target file is
\* overwritten, a backup of that file holding the content it had immediately
\* before the invocation exists at that moment, for text files and for
\* spreadsheets, and the file is overwritten in its own pass only, so at
\* most once per invocation.
C22_BackupPrecedesOverwrite ==
    [][\A path \in Targets :
          (rp.pc = "files" /\ ~rp.req.preview_only /\ fsys'[path] # fsys[path]) =>
              /\ backup_path_of(path) \in DOMAIN fsys'
              /\ fsys'[backup_path_of(path)] = fsys0[path]
              /\ path \in rp.todo \ rp'.todo]_vars

-----------------------------------------------------------------------------
(* Claims about the responses of the search endpoints, checked under Spec *)

\* the workbook has a non-empty cell at the record's sheet, row and column
\* whose string form is the record's value
CellOf(wb, rec) ==
    \E s \in 1..Len(wb.sheets) :
        /\ wb.sheets[s].name = rec.sheet
        /\ ~wb.sheets[s].chart
        /\ rec.row \in 1..Len(wb.sheets[s].rows)
        /\ rec.col \in 1..Len(wb.sheets[s].rows[rec.row])
        /\ wb.sheets[s].rows[rec.row][rec.col] # None
        /\ Str(wb.sheets[s].rows[rec.row][rec.col]) = rec.value

\* C13: in every result of an upload search, each record's 'file' is the
\* original file name of the uploaded blob the record came from, and never
\* the temporary path under which the blob was staged.
C13_UploadRecordsNameTheOriginal ==
    (last.op = "search_uploaded" /\ last.resp.status = 200) =>
        \A i \in 1..Len(last.resp.results) :
            /\ \E j \in 1..Len(last.files) :
                  /\ last.resp.results[i].file = BareName(last.files[j].filename)
                  /\ CellOf(last.files[j].wb, last.resp.results[i])
            /\ last.resp.results[i].file \notin last.staged

\* an upload of two workbooks, each staged under a temporary path, has
\* returned the records of a.xlsx
C13_Witness ==
    /\ last.op = "search_uploaded"
    /\ last.resp.status = 200
    /\ Cardinality(last.staged) = 2
    /\ \E i \in 1..Len(last.resp.results) :
          last.resp.results[i].file = BareName("a.xlsx")

\* C14: in every successful search or search_uploaded response total_matches
\* is the length of the returned results and files_searched is the number of
\* workbooks attempted, whether or not each one could be scanned.
C14_CountsMatchTheResponse ==
    last.resp.status = 200 =>
        /\ last.resp.total_matches = Len(last.resp.results)
        /\ last.op = "search" =>
              last.resp.files_searched = Len(Folder(last.folder_path).excel_files)
        /\ last.op = "search_uploaded" =>
              last.resp.files_searched = Len(last.files)

\* an upload search has answered with matches although one of its two
\* workbooks could not be scanned
C14_Witness ==
    /\ last.op = "search_uploaded"
    /\ last.resp.status = 200
    /\ last.resp.files_searched = 2
    /\ last.resp.total_matches > 0
    /\ \E j \in 1..Len(last.files) : ~last.files[j].wb.openable

\* C15: every record a scan produces has a 1-based (row, col) that is the
\* position of a cell of the named sheet whose value was not null, and its
\* value is the string form of that cell's value; no record is produced for
\* an empty cell.
C15_RecordsPointAtNonEmptyCells ==
    (last.op = "search" /\ last.resp.status = 200) =>
        \A i \in 1..Len(last.resp.results) :
            LET rec == last.resp.results[i]
                excel_files == Folder(last.folder_path).excel_files
            IN  /\ rec.row >= 1
                /\ rec.col >= 1
                /\ \E j \in 1..Len(excel_files) :
                      /\ excel_files[j].path = rec.file
                      /\ CellOf(excel_files[j].wb, rec)

\* a folder search has returned a record of a text cell at row 2, column 2
\* behind empty cells, and one of a numeric cell
C15_Witness ==
    /\ last.op = "search"
    /\ last.resp.status = 200
    /\ \E i, j \in 1..Len(last.resp.results) :
          /\ last.resp.results[i].row = 2
          /\ last.resp.results[i].col = 2
          /\ last.resp.results[i].value = <<"I", "n", "v">>
          /\ last.resp.results[j].value = <<"1", "2">>

\* C27: whenever a successful search or search_uploaded response carries an
\* output_file, a result workbook with that name has been saved in the
\* results area by this invocation; when rendering or saving failed the
\* response carries no output_file.
C27_OutputFileNamesASavedWorkbook ==
    last.resp.status = 200 =>
        /\ last.render \in {"render_error", "save_error"} =>
              last.resp.output_file = NoName
        /\ \A i \in 1..Len(last.resp.output_file) :
              /\ last.resp.output_file[i] \in DOMAIN results_dir
              /\ last.render = "ok"

\* the position of a sheet in its workbook and of a keyword in the list
SheetIndex(wb, name) == CHOOSE i \in 1..Len(wb.sheets) : wb.sheets[i].name = name
KeywordIndex(keywords, keyword) ==
    CHOOSE k \in 1..Len(keywords) :
        keywords[k] = keyword /\ \A j \in 1..(k - 1) : keywords[j] # keyword

\* record a comes before record b in the scan of workbook wb
ScannedBefore(wb, keywords, a, b) ==
    LET sa == SheetIndex(wb, a.sheet)
        sb == SheetIndex(wb, b.sheet)
        ka == KeywordIndex(keywords, a.keyword)
        kb == KeywordIndex(keywords, b.keyword)
    IN  \/ sa < sb
        \/ sa = sb /\ a.row < b.row
        \/ sa = sb /\ a.row = b.row /\ a.col < b.col
        \/ sa = sb /\ a.row = b.row /\ a.col = b.col /\ ka < kb

\* C24: within one workbook the records are in scan order: sheets in the
\* workbook's sheet order, rows ascending, columns ascending within a row and
\* keywords in list order within a cell; in the aggregate result the records
\* of each workbook are contiguous and in that order.
C24_RecordsInScanOrder ==
    (last.op = "search" /\ last.resp.status = 200) =>
        LET results == last.resp.results
            books == Folder(last.folder_path).excel_files
        IN  \A i, j \in 1..Len(results) :
              (i < j /\ results[i].file = results[j].file) =>
                  /\ \A k \in i..j : results[k].file = results[i].file
                  /\ \A b \in 1..Len(books) :
                        books[b].path = results[i].file =>
                            ScannedBefore(books[b].wb, last.keywords,
                                          results[i], results[j])

\* a search has returned, for one workbook, records of two sheets, of two
\* columns of one row and of two keywords in one cell
C24_Witness ==
    /\ last.op = "search"
    /\ last.resp.status = 200
    /\ \E i, j \in 1..Len(last.resp.results) :
          /\ last.resp.results[i].file = last.resp.results[j].file
          /\ last.resp.results[i].sheet # last.resp.results[j].sheet
    /\ \E i, j \in 1..Len(last.resp.results) :
          /\ last.resp.results[i].file = last.resp.results[j].file
          /\ last.resp.results[i].sheet = last.resp.results[j].sheet
          /\ last.resp.results[i].row = last.resp.results[j].row
          /\ last.resp.results[i].col < last.resp.results[j].col
    /\ \E i, j \in 1..Len(last.resp.results) :
          /\ last.resp.results[i].file = last.resp.results[j].file
          /\ last.resp.results[i].sheet = last.resp.results[j].sheet
          /\ last.resp.results[i].row = last.resp.results[j].row
          /\ last.resp.results[i].col = last.resp.results[j].col
          /\ last.resp.results[i].keyword # last.resp.results[j].keyword
    /\ Cardinality({last.resp.results[i].file : i \in 1..Len(last.resp.results)}) > 1

\* C16: running search twice with identical folder and keywords against an
\* unchanged workbook set yields results identical in content and order,
\* while the two output artifact identifiers differ.
C16_RepeatedSearchSameResultsNewArtifact ==
    [][(/\ ninv' = ninv + 1
        /\ up' = up
        /\ last.op = "search"
        /\ last'.op = "search"
        /\ last.resp.status = 200
        /\ last'.folder_path = last.folder_path
        /\ last'.keywords = last.keywords)
       => /\ last'.resp.status = 200
          /\ last'.resp.results = last.resp.results
          /\ last'.resp.output_file # last.resp.output_file]_vars

-----------------------------------------------------------------------------
(* Claims about the column letters and the cell reference, checked under    *)
(* SpecRef                                                                  *)

\* the position of a letter in A..Z, 0 for any other character
LetterValue(c) ==
    IF \E i \in 1..26 : Letters[i] = c THEN CHOOSE i \in 1..26 : Letters[i] = c ELSE 0

RECURSIVE DecodeLetters(_)
\* the letters read as a base-26 number with A = 1
DecodeLetters(letters) ==
    IF letters = <<>> THEN 0
    ELSE 26 * DecodeLetters(SubSeq(letters, 1, Len(letters) - 1))
         + LetterValue(letters[Len(letters)])

\* C17: for every column index the conversion returns a non-empty string over
\* A..Z whose decoding as a base-26 number with A = 1 yields the index again;
\* 1 gives "A", 26 gives "Z", 27 gives "AA" and 702 gives "ZZ".
C17_ColumnLettersRoundTrip ==
    refpc = "done" =>
        /\ Len(ref_out.letters) > 0
        /\ \A i \in 1..Len(ref_out.letters) : LetterValue(ref_out.letters[i]) > 0
        /\ DecodeLetters(ref_out.letters) = ref_col
        /\ ref_col = 1 => ref_out.letters = <<"A">>
        /\ ref_col = 26 => ref_out.letters = <<"Z">>
        /\ ref_col = 27 => ref_out.letters = <<"A", "A">>
        /\ ref_col = 702 => ref_out.letters = <<"Z", "Z">>

\* column 702, the last two-letter column, has been converted
C17_Witness ==
    /\ refpc = "done"
    /\ ref_col = 702
    /\ ref_out.letters = <<"Z", "Z">>

\* the characters that make a sheet name quoted
SpecialSheetChars == {" ", "-", "!", "@", "#", "$", "%", "^", "&", "*", "(", ")"}

\* C18: the cell reference of a match is '<sheet>'!<letters><row> with the
\* sheet name in single quotes exactly when it contains a space, a hyphen or
\* one of ! @ # $ % ^ & * ( ), and <sheet>!<letters><row> otherwise; sheet
\* "Q1 2024", column 28, row 5 gives 'Q1 2024'!AB5 and sheet "Sheet1",
\* column 2, row 2 gives Sheet1!B2.
C18_CellReferenceQuoting ==
    refpc = "done" =>
        LET special == \E i \in 1..Len(ref_sheet) : ref_sheet[i] \in SpecialSheetChars
            tail == <<"!">> \o ref_out.letters \o IntStr(ref_row)
        IN  /\ special => ref_out.reference = <<"'">> \o ref_sheet \o <<"'">> \o tail
            /\ ~special => ref_out.reference = ref_sheet \o tail
            /\ (ref_sheet = SheetQ1 /\ ref_col = 28 /\ ref_row = 5) =>
                  ref_out.reference =
                      <<"'", "Q", "1", " ", "2", "0", "2", "4", "'", "!", "A", "B", "5">>
            /\ (ref_sheet = Sheet1 /\ ref_col = 2 /\ ref_row = 2) =>
                  ref_out.reference = <<"S", "h", "e", "e", "t", "1", "!", "B", "2">>

\* the reference of a match in sheet "Q1 2024" at column 28, row 5 was built
C18_Witness ==
    /\ refpc = "done"
    /\ ref_sheet = SheetQ1
    /\ ref_col = 28
    /\ ref_row = 5
    /\ ref_out.reference[1] = "'"

-----------------------------------------------------------------------------
(* Claims about the result download, checked under SpecDownload *)

\* C20: the download returns the content of the result workbook named by the
\* identifier, and fails with NotFound whenever no artifact with that
\* identifier exists in the results folder; a request for an identifier that
\* does not exist is never answered with the content of another artifact.
C20_DownloadServesOnlyTheNamedArtifact ==
    LET named == {t \in DOMAIN dl_store :
                    ArtifactName(t) = download_normalize(dl_resp.req)}
    IN  /\ dl_resp.status = 200 =>
              /\ named # {}
              /\ \A t \in named :
                    dl_resp.served = <<t>> /\ dl_resp.content = dl_store[t]
        /\ (dl_resp.status # 0 /\ download_normalize(dl_resp.req) # <<>>
              /\ named = {}) => dl_resp.status = 404
        /\ (dl_resp.status # 0 /\ named # {}) => dl_resp.status = 200

\* C30: whatever identifier the caller supplies (relative, with ".."
\* segments, or absolute), only the content of a file located inside the
\* results folder is returned; a file outside it is never sent.
C30_OnlyResultFilesAreSent ==
    dl_resp.status = 200 =>
        /\ Len(dl_resp.location) > Len(results_folder_abs)
        /\ SubSeq(dl_resp.location, 1, Len(results_folder_abs)) = results_folder_abs
        /\ dl_resp.served # <<>>
        /\ dl_resp.served[1] \in DOMAIN dl_store
        /\ dl_resp.content = dl_store[dl_resp.served[1]]

-----------------------------------------------------------------------------
(* Claims about the match records of search_replace_files, checked under
   SpecContext *)

\* the content string a match record of the entry was found in: the text of
\* the file, or the text of the cell at the record's sheet, row and column
ContentOf(entry, m) ==
    IF is_excel(entry.file_path)
    THEN LET wb == fsys0[entry.file_path]
             s == CHOOSE i \in 1..Len(wb.sheets) : wb.sheets[i].name = m.sheet
             c == CHOOSE k \in 1..Len(wb.sheets[s].rows[m.line]) :
                     number_to_excel_column(k) = m.column
         IN  Str(wb.sheets[s].rows[m.line][c])
    ELSE fsys0[entry.file_path]

\* the record describes a match of the pattern in content, with its context
\* windows of at most ContextLen characters
DescribesMatch(m, content, atoms) ==
    /\ 0 <= m.start /\ m.start <= m.end /\ m.end <= Len(content)
    /\ MatchesAt(atoms, content, m.start)
    /\ m.end = m.start + Len(atoms)
    /\ m.match_text = SubSeq(content, m.start + 1, m.end)
    /\ Len(m.context_before) = Min(ContextLen, m.start)
    /\ m.context_before = SubSeq(content, m.start - Len(m.context_before) + 1, m.start)
    /\ Len(m.context_after) = Min(ContextLen, Len(content) - m.end)
    /\ m.context_after = SubSeq(content, m.end + 1, m.end + Len(m.context_after))

\* the records of one content string are the leftmost non-overlapping matches
LeftmostNonOverlapping(ms, content, atoms) ==
    \A k \in 1..Len(ms) :
        LET from == IF k = 1 THEN 0 ELSE ms[k - 1].end
        IN  /\ from <= ms[k].start
            /\ \A pos \in from..(ms[k].start - 1) : ~MatchesAt(atoms, content, pos)

\* C25: for every content string (text file content or cell text) and every
\* compiled pattern, each reported match has 0 <= start <= end <= length,
\* match_text = content[start:end], context_before the min(50, start)
\* characters before start and context_after the min(50, length - end)
\* characters after end, and the matches reported are non-overlapping.
C25_MatchSpansAndContext ==
    rp.pc = "files" =>
        \A i \in 1..Len(rp.results) :
            LET entry == rp.results[i]
            IN  /\ \A k \in 1..Len(entry.matches) :
                      DescribesMatch(entry.matches[k],
                                     ContentOf(entry, entry.matches[k]), rp.atoms)
                /\ LeftmostNonOverlapping(entry.matches,
                                          ContentOf(entry, entry.matches[1]), rp.atoms)

\* matches were reported in a text file and in a cell, one of them more than
\* ContextLen characters from the start and from the end of its content
C25_Witness ==
    /\ rp.pc = "files"
    /\ \E i, j \in 1..Len(rp.results) :
          /\ is_excel(rp.results[i].file_path)
          /\ ~is_excel(rp.results[j].file_path)
          /\ \E k \in 1..Len(rp.results[i].matches) :
                /\ rp.results[i].matches[k].start > ContextLen
                /\ Len(rp.results[i].matches[k].context_after) = ContextLen
          /\ \E k \in 1..Len(rp.results[j].matches) :
                /\ rp.results[j].matches[k].start > ContextLen
                /\ Len(rp.results[j].matches[k].context_before) = ContextLen
                /\ Len(rp.results[j].matches[k].context_after) = ContextLen

-----------------------------------------------------------------------------
(* Claims about concurrent uploads, checked under SpecUploads *)

\* C23: across any interleaving of concurrent search_uploaded requests,
\* including requests that upload files with the same filename at the same
\* time, no request overwrites or deletes a temporary file that another
\* request has staged and not yet cleaned up, and no temporary file is
\* staged by two requests.
C23_TempFilesArePrivate ==
    [][\A r \in DOMAIN up : \A other \in DOMAIN up \ {r} :
          (up'[r] # up[r] /\ up[other].pc # "idle") =>
              /\ \A temp_file \in up[other].staged \cap DOMAIN uploads_dir :
                    /\ temp_file \in DOMAIN uploads_dir'
                    /\ uploads_dir'[temp_file] = uploads_dir[temp_file]
              /\ up'[r].staged \cap up[other].staged = {}]_vars

-----------------------------------------------------------------------------
(* Claims about the cell context, checked under SpecCell *)

\* the worksheet or chart sheet the request names, if the workbook has one
NamedSheets ==
    IF cd_req.file_path \in DOMAIN CellFiles
    THEN {CellFiles[cd_req.file_path].sheets[i] :
            i \in SheetNamed(CellFiles[cd_req.file_path], cd_req.sheet_name)}
    ELSE {}

\* C21: a request that names a file, a sheet, a row and a column fails with
\* NotFound when the workbook file or the named sheet does not exist;
\* otherwise it succeeds and, for row r and context_rows k, the rows returned
\* are exactly the rows max(1, r-k) .. min(max_row, r+k) in ascending order,
\* each listing the columns 1..max_col, and is_target is true for exactly the
\* cell at (row, col).
C21_ContextRowsAroundTheTarget ==
    (cd_resp.status # 0 /\ cd_resp.status # 400) =>
        IF NamedSheets = {} THEN cd_resp.status = 404
        ELSE /\ cd_resp.status = 200
             /\ \A sheet \in NamedSheets :
                  LET first == Max(1, cd_req.row - cd_req.context_rows)
                      last_row == Min(max_row(sheet), cd_req.row + cd_req.context_rows)
                  IN  /\ Len(cd_resp.context) = Max(0, last_row - first + 1)
                      /\ \A k \in 1..Len(cd_resp.context) :
                           /\ Len(cd_resp.context[k]) = max_column(sheet)
                           /\ \A c \in 1..Len(cd_resp.context[k]) :
                                /\ cd_resp.context[k][c].row = first + k - 1
                                /\ cd_resp.context[k][c].col = c
                                /\ cd_resp.context[k][c].is_target
                                     <=> (first + k - 1 = cd_req.row /\ c = cd_req.col)

=============================================================================
